---- MODULE Spec2Model ----
(***************************************************************************)
(* Sentry: a controller that polls source repositories for new commits and *)
(* runs group / individual deployments when a branch head moves.           *)
(*                                                                         *)
(* Three state machines share this module:                                 *)
(*   Spec       the poller (MonitorService.CheckAllRepositories driven by  *)
(*              the watch loop) with the upstream hosts as environment;    *)
(*   SpecProbe  one call of MonitorService.GetLatestCommit (retry loop);   *)
(*   SpecGroup  one call of DeployService.DeployGroup (parallel pool or    *)
(*              sequential loop) with the group deadline as environment.   *)
(***************************************************************************)
EXTENDS Integers, Sequences, FiniteSets, TLC

VARIABLES
    \* ---- poller (MonitorService) ----
    upstream,            \* environment: branch head per <<repo, branch>>
    lastCommit,          \* MonitorService.lastCommit: cacheKey -> SHA
    mpc,                 \* position of the watch process
    startupScans,        \* how many of the start-up scans have returned
    scanIdx,             \* index of the repository the scan loop is at
    triggeredGroups,     \* CheckAllRepositories: group name -> GroupTrigger
    triggeredIndividual, \* CheckAllRepositories: names of ungrouped changed repos
    groupsLeft,          \* group triggers the dispatch loop has not visited yet
    indIdx,              \* index into triggeredIndividual of the dispatch loop
    errors,              \* CheckAllRepositories: collected error strings
    \* ---- observations of the current / previous tick ----
    groupCalls,          \* DeployGroup invocations of this tick, in order
    indCalls,            \* DeployIndividual invocations of this tick, in order
    changedRepos,        \* repositories checkRepository reported changed this tick
    probeLog,            \* probes of this tick: key, verdict, SHA fetched, entry before
    prevSeen,            \* lastCommit when the previous tick returned
    prevFailed,          \* the repositories of the previous tick's failed dispatches,
                         \* kept when that tick had no failing probe and no push
    prevClean,           \* the previous tick had no failing probe
    pushedPrev,          \* a head moved during the previous tick
    pushedCur            \* a head moved since the current tick began

monitorVars == <<upstream, lastCommit, mpc, startupScans, scanIdx, triggeredGroups,
                 triggeredIndividual, groupsLeft, indIdx, errors, groupCalls,
                 indCalls, changedRepos, probeLog, prevSeen, prevFailed, prevClean,
                 pushedPrev, pushedCur>>

----------------------------------------------------------------------------
(* Generic helpers                                                         *)

Range(s) == {s[i] : i \in DOMAIN s}

Put(f, k, v) == [x \in (DOMAIN f) \cup {k} |-> IF x = k THEN v ELSE f[x]]

EmptyMap == [x \in {} |-> ""]

----------------------------------------------------------------------------
(* Configuration (immutable after load)                                    *)

Repositories ==
    << [Name |-> "r1", Group |-> "G", Branches |-> <<"main", "dev">>],
       [Name |-> "r2", Group |-> "G", Branches |-> <<"main">>],
       [Name |-> "r3", Group |-> "",  Branches |-> <<"main">>] >>

Groups == {"G"}

SHAs == {"aaaaaaaa", "bbbbbbbb"}

BranchKeys == UNION { { <<Repositories[i].Name, Repositories[i].Branches[j]>> :
                          j \in DOMAIN Repositories[i].Branches } :
                      i \in DOMAIN Repositories }

\* the two scans run before the ticker starts
StartupScans == 2

----------------------------------------------------------------------------
(* Change detector                                                         *)

cacheKey(name, branch) == name \o ":" \o branch

\* the result of GetLatestCommit as the change detector sees it
FetchCommit(repo, branch, ok) ==
    IF ok THEN [ok |-> TRUE, SHA |-> upstream[<<repo.Name, branch>>]]
          ELSE [ok |-> FALSE, SHA |-> ""]

checkRepositoryBranch_FirstSeenIsChange(lc, repo, branch, commit) ==
    IF ~commit.ok
    THEN [changed |-> FALSE, err |-> TRUE, lastCommit |-> lc]
    ELSE IF cacheKey(repo.Name, branch) \notin DOMAIN lc
         THEN [changed |-> TRUE, err |-> FALSE,
               lastCommit |-> Put(lc, cacheKey(repo.Name, branch), commit.SHA)]
         ELSE IF commit.SHA # lc[cacheKey(repo.Name, branch)]
              THEN [changed |-> TRUE, err |-> FALSE,
                    lastCommit |-> Put(lc, cacheKey(repo.Name, branch), commit.SHA)]
              ELSE [changed |-> FALSE, err |-> FALSE, lastCommit |-> lc]

checkRepositoryBranch_StoreOnError(lc, repo, branch, commit) ==
    IF ~commit.ok
    THEN [changed |-> FALSE, err |-> TRUE,
          lastCommit |-> Put(lc, cacheKey(repo.Name, branch), commit.SHA)]
    ELSE IF cacheKey(repo.Name, branch) \notin DOMAIN lc
         THEN [changed |-> FALSE, err |-> FALSE,
               lastCommit |-> Put(lc, cacheKey(repo.Name, branch), commit.SHA)]
         ELSE IF commit.SHA # lc[cacheKey(repo.Name, branch)]
              THEN [changed |-> TRUE, err |-> FALSE,
                    lastCommit |-> Put(lc, cacheKey(repo.Name, branch), commit.SHA)]
              ELSE [changed |-> FALSE, err |-> FALSE, lastCommit |-> lc]

checkRepositoryBranch_ForgetsOnError(lc, repo, branch, commit) ==
    IF ~commit.ok
    THEN [changed |-> FALSE, err |-> TRUE,
          lastCommit |-> [k \in (DOMAIN lc) \ {cacheKey(repo.Name, branch)} |-> lc[k]]]
    ELSE IF cacheKey(repo.Name, branch) \notin DOMAIN lc
         THEN [changed |-> FALSE, err |-> FALSE,
               lastCommit |-> Put(lc, cacheKey(repo.Name, branch), commit.SHA)]
         ELSE IF commit.SHA # lc[cacheKey(repo.Name, branch)]
              THEN [changed |-> TRUE, err |-> FALSE,
                    lastCommit |-> Put(lc, cacheKey(repo.Name, branch), commit.SHA)]
              ELSE [changed |-> FALSE, err |-> FALSE, lastCommit |-> lc]

checkRepositoryBranch(lc, repo, branch, commit) ==
    IF ~commit.ok
    THEN [changed |-> FALSE, err |-> TRUE, lastCommit |-> lc]
    ELSE IF cacheKey(repo.Name, branch) \notin DOMAIN lc
         THEN \* first time checking this repository/branch
              [changed |-> FALSE, err |-> FALSE,
               lastCommit |-> Put(lc, cacheKey(repo.Name, branch), commit.SHA)]
         ELSE IF commit.SHA # lc[cacheKey(repo.Name, branch)]
              THEN [changed |-> TRUE, err |-> FALSE,
                    lastCommit |-> Put(lc, cacheKey(repo.Name, branch), commit.SHA)]
              ELSE [changed |-> FALSE, err |-> FALSE, lastCommit |-> lc]

\* the branch loop from branch index j on; probed = number of branches probed
RECURSIVE checkRepositoryFrom(_, _, _, _)
checkRepositoryFrom(lc, repo, j, commits) ==
    IF j > Len(repo.Branches)
    THEN [changed |-> FALSE, err |-> FALSE, lastCommit |-> lc, probed |-> j - 1]
    ELSE LET r == checkRepositoryBranch(lc, repo, repo.Branches[j], commits[j])
         IN  IF r.err
             THEN [changed |-> FALSE, err |-> TRUE,
                   lastCommit |-> r.lastCommit, probed |-> j]
             ELSE IF r.changed
                  THEN [changed |-> TRUE, err |-> FALSE,
                        lastCommit |-> r.lastCommit, probed |-> j]
                  ELSE checkRepositoryFrom(r.lastCommit, repo, j + 1, commits)

checkRepository(lc, repo, commits) == checkRepositoryFrom(lc, repo, 1, commits)

----------------------------------------------------------------------------
(* Trigger planner                                                         *)

RECURSIVE GroupMembersFrom(_, _)
GroupMembersFrom(group, i) ==
    IF i > Len(Repositories) THEN <<>>
    ELSE (IF Repositories[i].Group = group THEN <<Repositories[i].Name>> ELSE <<>>)
         \o GroupMembersFrom(group, i + 1)

\* the names of the repositories of a group, in declaration order
GroupMembers(group) == GroupMembersFrom(group, 1)

\* lines 105-120: ensure the group's trigger, then append every member of the group
AddGroupTrigger(tg, repo) ==
    LET base == IF repo.Group \in DOMAIN tg THEN tg
                ELSE Put(tg, repo.Group,
                         [GroupName |-> repo.Group, Repositories |-> <<>>,
                          TriggerRepo |-> repo.Name])
    IN  [base EXCEPT ![repo.Group].Repositories = @ \o GroupMembers(repo.Group)]

----------------------------------------------------------------------------
(* Poller: the watch loop and CheckAllRepositories                         *)

Entry(lc, key) == IF key \in DOMAIN lc THEN lc[key] ELSE "none"

TickClean == \A p \in probeLog : p.ok

\* the repositories handed to a dispatch of this tick that returned an error
FailedRepos ==
    UNION { IF errors[e][1] = "group" /\ errors[e][2] \in DOMAIN triggeredGroups
            THEN Range(triggeredGroups[errors[e][2]].Repositories)
            ELSE IF errors[e][1] = "individual" THEN {errors[e][2]}
            ELSE {} : e \in DOMAIN errors }

MonitorFresh ==
    /\ lastCommit = EmptyMap
    /\ startupScans = 0
    /\ scanIdx = 1
    /\ triggeredGroups = EmptyMap
    /\ triggeredIndividual = <<>>
    /\ groupsLeft = {}
    /\ indIdx = 1
    /\ errors = <<>>
    /\ groupCalls = <<>>
    /\ indCalls = <<>>
    /\ changedRepos = {}
    /\ probeLog = {}
    /\ prevSeen = EmptyMap
    /\ prevFailed = {}
    /\ prevClean = FALSE
    /\ pushedPrev = FALSE
    /\ pushedCur = FALSE

\* NewMonitorService, before the watch action makes its first scan
InitMonitor ==
    /\ upstream \in [BranchKeys -> SHAs]
    /\ mpc = "idle"
    /\ MonitorFresh

\* no watch process in this run
NoMonitor ==
    /\ upstream = [k \in BranchKeys |-> "aaaaaaaa"]
    /\ mpc = "off"
    /\ MonitorFresh

\* environment: somebody pushes to (or force-moves) a branch
Push ==
    /\ mpc # "stopped"
    /\ \E k \in BranchKeys : \E s \in SHAs \ {upstream[k]} :
          upstream' = [upstream EXCEPT ![k] = s]
    /\ pushedCur' = TRUE
    /\ UNCHANGED <<lastCommit, mpc, startupScans, scanIdx, triggeredGroups,
                   triggeredIndividual, groupsLeft, indIdx, errors, groupCalls,
                   indCalls, changedRepos, probeLog, prevSeen, prevFailed, prevClean, pushedPrev>>

\* CheckAllRepositories is entered: by the start-up code or by the ticker
BeginTick ==
    /\ mpc = "idle"
    /\ mpc' = "scan"
    /\ scanIdx' = 1
    /\ triggeredGroups' = EmptyMap
    /\ triggeredIndividual' = <<>>
    /\ groupsLeft' = {}
    /\ indIdx' = 1
    /\ errors' = <<>>
    /\ groupCalls' = <<>>
    /\ indCalls' = <<>>
    /\ changedRepos' = {}
    /\ probeLog' = {}
    /\ prevSeen' = lastCommit
    /\ prevFailed' = IF startupScans >= 1 /\ TickClean /\ ~pushedCur
                     THEN FailedRepos ELSE {}
    /\ prevClean' = (startupScans >= 1 /\ TickClean)
    /\ pushedPrev' = pushedCur
    /\ pushedCur' = FALSE
    /\ UNCHANGED <<upstream, lastCommit, startupScans>>

ScanGoesOn_StopsOnError(i, err) == ~err /\ i < Len(Repositories)

\* lines 95-100: after a repository whose check failed the loop continues
\* with the next one, as it does after one that was checked
ScanGoesOn(i, err) == i < Len(Repositories)

\* one iteration of the scan loop (lines 95-126)
ScanRepo ==
    /\ mpc = "scan"
    /\ scanIdx <= Len(Repositories)
    /\ LET repo == Repositories[scanIdx]
       IN  \E outcome \in [DOMAIN repo.Branches -> BOOLEAN] :
             LET commits == [j \in DOMAIN repo.Branches |->
                               FetchCommit(repo, repo.Branches[j], outcome[j])]
                 r == checkRepository(lastCommit, repo, commits)
                 tg == IF ~r.err /\ r.changed /\ repo.Group # ""
                       THEN AddGroupTrigger(triggeredGroups, repo)
                       ELSE triggeredGroups
             IN  /\ lastCommit' = r.lastCommit
                 /\ probeLog' = probeLog \cup
                       { [key |-> cacheKey(repo.Name, repo.Branches[j]),
                          repo |-> repo.Name,
                          ok |-> commits[j].ok,
                          sha |-> commits[j].SHA,
                          before |-> Entry(lastCommit, cacheKey(repo.Name, repo.Branches[j]))] :
                         j \in 1..r.probed }
                 /\ errors' = IF r.err THEN Append(errors, <<"probe", repo.Name>>)
                              ELSE errors
                 /\ changedRepos' = IF ~r.err /\ r.changed
                                    THEN changedRepos \cup {repo.Name}
                                    ELSE changedRepos
                 /\ triggeredGroups' = tg
                 /\ triggeredIndividual' =
                       IF ~r.err /\ r.changed /\ repo.Group = ""
                       THEN Append(triggeredIndividual, repo.Name)
                       ELSE triggeredIndividual
                 /\ scanIdx' = scanIdx + 1
                 /\ IF ScanGoesOn(scanIdx, r.err)
                    THEN mpc' = "scan" /\ groupsLeft' = groupsLeft
                    ELSE mpc' = "dispatch" /\ groupsLeft' = DOMAIN tg
    /\ UNCHANGED <<upstream, startupScans, indIdx, groupCalls, indCalls,
                   prevSeen, prevFailed, prevClean, pushedPrev, pushedCur>>

\* one iteration of the group dispatch loop (lines 129-138); the map is ranged
\* over in no particular order; deployed is DeployGroup's verdict
DispatchGroup ==
    /\ mpc = "dispatch"
    /\ \E g \in groupsLeft : \E deployed \in BOOLEAN :
         /\ groupsLeft' = groupsLeft \ {g}
         /\ IF g \in Groups
            THEN /\ groupCalls' = Append(groupCalls,
                        [GroupName |-> g,
                         Repositories |-> triggeredGroups[g].Repositories])
                 /\ errors' = IF deployed THEN errors
                              ELSE Append(errors, <<"group", g>>)
            ELSE /\ groupCalls' = groupCalls
                 /\ errors' = Append(errors, <<"group", g>>)
    /\ UNCHANGED <<upstream, lastCommit, mpc, startupScans, scanIdx, triggeredGroups,
                   triggeredIndividual, indIdx, indCalls, changedRepos, probeLog,
                   prevSeen, prevFailed, prevClean, pushedPrev, pushedCur>>

\* one iteration of the individual dispatch loop (lines 141-146)
DispatchIndividual ==
    /\ mpc = "dispatch"
    /\ groupsLeft = {}
    /\ indIdx <= Len(triggeredIndividual)
    /\ \E deployed \in BOOLEAN :
         /\ indCalls' = Append(indCalls, triggeredIndividual[indIdx])
         /\ errors' = IF deployed THEN errors
                      ELSE Append(errors, <<"individual", triggeredIndividual[indIdx]>>)
    /\ indIdx' = indIdx + 1
    /\ UNCHANGED <<upstream, lastCommit, mpc, startupScans, scanIdx, triggeredGroups,
                   triggeredIndividual, groupsLeft, groupCalls, changedRepos, probeLog,
                   prevSeen, prevFailed, prevClean, pushedPrev, pushedCur>>

\* CheckAllRepositories returns; a start-up scan that returns an error ends the
\* watcher, a later one is only logged
EndTick ==
    /\ mpc = "dispatch"
    /\ groupsLeft = {}
    /\ indIdx > Len(triggeredIndividual)
    /\ mpc' = IF startupScans < StartupScans /\ errors # <<>> THEN "stopped" ELSE "idle"
    /\ startupScans' = IF startupScans < StartupScans THEN startupScans + 1
                       ELSE startupScans
    /\ UNCHANGED <<upstream, lastCommit, scanIdx, triggeredGroups, triggeredIndividual,
                   groupsLeft, indIdx, errors, groupCalls, indCalls, changedRepos,
                   probeLog, prevSeen, prevFailed, prevClean, pushedPrev, pushedCur>>

----------------------------------------------------------------------------
(* Source hosting client: one call of GetLatestCommit                      *)

VARIABLES
    repoType,     \* monitor.RepoType of the call
    gpc,          \* position of the call: "loop", "returned" ("off": no call)
    attempt,      \* the loop counter
    requests,     \* the responses to the HTTP requests issued so far, in order
    lastErr,      \* text of the last error
    result        \* what the call returned

probeVars == <<repoType, gpc, attempt, requests, lastErr, result>>

MaxRetries == 3

RepoTypes == {"github", "gitlab", "gitea", "bitbucket"}

SupportedRepoTypes_All == RepoTypes

SupportedRepoTypes == {"github", "gitlab", "gitea"}

\* texts are sequences of tokens; a decimal digit is a token of its own
DigitStr(d) == <<"0", "1", "2", "3", "4", "5", "6", "7", "8", "9">>[d + 1]

\* fmt's %d of a three-digit status code
FormatStatus(code) ==
    <<DigitStr(code \div 100), DigitStr((code \div 10) % 10), DigitStr(code % 10)>>

\* strings.Contains
Contains(text, needle) ==
    \E i \in 0..(Len(text) - Len(needle)) :
        SubSeq(text, i + 1, i + Len(needle)) = needle

\* what a server or the network may put into a body or an error detail
Texts == { <<"boom">>, <<"upstream ", "status ", "4", "0", "4">> }

ErrorStatuses == {401, 404, 503}

\* what one HTTP request can come back with
Responses ==
    { [kind |-> "ok", status |-> 200, text |-> <<>>, sha |-> "cccccccc"] }
    \cup { [kind |-> "status", status |-> c, text |-> t, sha |-> ""] :
             c \in ErrorStatuses, t \in Texts }
    \cup { [kind |-> "transport", status |-> 0, text |-> t, sha |-> ""] : t \in Texts }
    \cup { [kind |-> "decode", status |-> 200, text |-> t, sha |-> ""] : t \in Texts }

\* the platform's name as the error texts spell it
ApiName(platform) ==
    CASE platform = "github" -> "GitHub"
      [] platform = "gitlab" -> "GitLab"
      [] platform = "gitea" -> "Gitea"
      [] OTHER -> platform   \* no request function exists for another platform

\* the error text get<Platform>LatestCommit builds for a failed request
ErrText(platform, resp) ==
    CASE resp.kind = "status" ->
            <<ApiName(platform), " API error (", "status ">>
               \o FormatStatus(resp.status) \o <<"): ">> \o resp.text
      [] resp.kind = "transport" -> <<"HTTP request failed: ">> \o resp.text
      [] resp.kind = "decode" ->
            <<"failed to parse ", ApiName(platform), " response: ">> \o resp.text

IsClientError_Never(text) == FALSE

\* line 256: the test that ends the retry loop
IsClientError(text) == Contains(text, <<"status ", "4">>)

NoResult == [ok |-> FALSE, SHA |-> "", why |-> "pending"]

InitProbe ==
    /\ repoType \in RepoTypes
    /\ gpc = "loop"
    /\ attempt = 0
    /\ requests = <<>>
    /\ lastErr = <<>>
    /\ result = NoResult

NoProbe ==
    /\ repoType = "github"
    /\ gpc = "off"
    /\ attempt = 0
    /\ requests = <<>>
    /\ lastErr = <<>>
    /\ result = NoResult

LoopContinues_OneMore(a) == a <= MaxRetries + 1

\* line 225: the loop condition attempt <= retryConfig.MaxRetries
LoopContinues(a) == a <= MaxRetries

\* one iteration of the retry loop (lines 226-259) and, when the loop ends, the
\* return after it
Attempt ==
    /\ gpc = "loop"
    /\ LoopContinues(attempt)
    /\ IF repoType \notin SupportedRepoTypes
       THEN /\ gpc' = "returned"
            /\ result' = [ok |-> FALSE, SHA |-> "", why |-> "unsupported"]
            /\ UNCHANGED <<attempt, requests, lastErr>>
       ELSE \E resp \in Responses :
              /\ requests' = Append(requests, resp)
              /\ IF resp.kind = "ok"
                 THEN /\ gpc' = "returned"
                      /\ result' = [ok |-> TRUE, SHA |-> resp.sha, why |-> ""]
                      /\ UNCHANGED <<attempt, lastErr>>
                 ELSE /\ lastErr' = ErrText(repoType, resp)
                      /\ IF IsClientError(ErrText(repoType, resp))
                         THEN /\ gpc' = "returned"
                              /\ result' = [ok |-> FALSE, SHA |-> "", why |-> "failed"]
                              /\ attempt' = attempt
                         ELSE /\ attempt' = attempt + 1
                              /\ IF ~LoopContinues(attempt + 1)
                                 THEN /\ gpc' = "returned"
                                      /\ result' = [ok |-> FALSE, SHA |-> "",
                                                    why |-> "failed"]
                                 ELSE UNCHANGED <<gpc, result>>
    /\ UNCHANGED <<repoType>>

----------------------------------------------------------------------------
(* Group executor: one call of DeployGroup                                 *)

VARIABLES
    repoNames,        \* the member list DeployGroup was called with
    strategy,         \* groupConfig.ExecutionStrategy
    maxParallel,      \* groupConfig.MaxParallel
    continueOnError,  \* groupConfig.ContinueOnError
    dpc,              \* position of the calling goroutine ("off": no call)
    gi,               \* index of the member the spawn / sequential loop is at
    st,               \* per member index: position of its deployment
    semaphore,        \* number of slots of the semaphore channel in use
    firstError,       \* deployGroupParallel: the first-error latch
    Results,          \* groupResult.Results: repo name -> DeployResult
    ctxDone,          \* the group deadline (GlobalTimeout) has fired
    lateStart,        \* per member index: deployRepository began after the deadline
    outcome,          \* per member index: "none", "ok", "fail", "timeout"
    groupErr,         \* the error DeployGroup returned
    groupSuccess      \* groupResult.Success

groupVars == <<repoNames, strategy, maxParallel, continueOnError, dpc, gi, st,
               semaphore, firstError, Results, ctxDone, lateStart, outcome,
               groupErr, groupSuccess>>

\* largest max_parallel tried
MaxK == 2

\* member lists: a three-member group, and a two-member group as the trigger
\* planner hands it over when both members changed in one tick
MemberLists == { <<"r1", "r2", "r3">>, <<"r1", "r2", "r1", "r2">> }

Nil == [kind |-> "nil", names |-> {}]

Members == DOMAIN repoNames

InitGroup ==
    /\ repoNames \in MemberLists
    /\ strategy \in {"parallel", "sequential"}
    /\ maxParallel \in 1..MaxK
    /\ continueOnError \in BOOLEAN
    /\ dpc = IF strategy = "parallel" THEN "spawn" ELSE "seq"
    /\ gi = 1
    /\ st = [i \in DOMAIN repoNames |-> "new"]
    /\ semaphore = 0
    /\ firstError = Nil
    /\ Results = EmptyMap
    /\ ctxDone = FALSE
    /\ lateStart = [i \in DOMAIN repoNames |-> FALSE]
    /\ outcome = [i \in DOMAIN repoNames |-> "none"]
    /\ groupErr = Nil
    /\ groupSuccess = FALSE

NoGroup ==
    /\ repoNames = <<>>
    /\ strategy = "sequential"
    /\ maxParallel = 1
    /\ continueOnError = FALSE
    /\ dpc = "off"
    /\ gi = 1
    /\ st = <<>>
    /\ semaphore = 0
    /\ firstError = Nil
    /\ Results = EmptyMap
    /\ ctxDone = FALSE
    /\ lateStart = <<>>
    /\ outcome = <<>>
    /\ groupErr = Nil
    /\ groupSuccess = FALSE

\* what deployRepository can report: a deployment begun after the deadline has
\* a cancelled context from its first subprocess on and cannot succeed
DeployOutcomes(i) == IF lateStart[i] THEN {FALSE} ELSE BOOLEAN

DeployResult(success) ==
    [Success |-> success, Error |-> IF success THEN "" ELSE "failed"]

\* environment: the context's deadline fires
Deadline ==
    /\ dpc \in {"spawn", "wait", "seq"}
    /\ ~ctxDone
    /\ ctxDone' = TRUE
    /\ UNCHANGED <<repoNames, strategy, maxParallel, continueOnError, dpc, gi, st,
                   semaphore, firstError, Results, lateStart, outcome, groupErr,
                   groupSuccess>>

\* deployGroupParallel: one iteration of the loop that starts the goroutines
Spawn ==
    /\ dpc = "spawn"
    /\ st' = [st EXCEPT ![gi] = "select"]
    /\ gi' = gi + 1
    /\ dpc' = IF gi = Len(repoNames) THEN "wait" ELSE "spawn"
    /\ UNCHANGED <<repoNames, strategy, maxParallel, continueOnError, semaphore,
                   firstError, Results, ctxDone, lateStart, outcome, groupErr,
                   groupSuccess>>

CanAcquire_Unbounded == TRUE

\* a send on the semaphore channel can proceed
CanAcquire == semaphore < maxParallel

\* the select takes the semaphore case and deployRepository starts
Acquire(i) ==
    /\ st[i] = "select"
    /\ CanAcquire
    /\ semaphore' = semaphore + 1
    /\ st' = [st EXCEPT ![i] = "running"]
    /\ lateStart' = [lateStart EXCEPT ![i] = ctxDone]
    /\ UNCHANGED <<repoNames, strategy, maxParallel, continueOnError, dpc, gi,
                   firstError, Results, ctxDone, outcome, groupErr, groupSuccess>>

\* the select takes the ctx.Done case (lines 101-112)
TimeoutWaiting(i) ==
    /\ st[i] = "select"
    /\ ctxDone
    /\ firstError' = IF firstError = Nil
                     THEN [kind |-> "timeout", names |-> {}]
                     ELSE firstError
    /\ Results' = Put(Results, repoNames[i], [Success |-> FALSE, Error |-> "timeout"])
    /\ outcome' = [outcome EXCEPT ![i] = "timeout"]
    /\ st' = [st EXCEPT ![i] = "done"]
    /\ UNCHANGED <<repoNames, strategy, maxParallel, continueOnError, dpc, gi,
                   semaphore, ctxDone, lateStart, groupErr, groupSuccess>>

\* deployRepository returns and the result is stored under the mutex (116-123)
Record(i) ==
    /\ strategy = "parallel"
    /\ st[i] = "running"
    /\ \E success \in DeployOutcomes(i) :
         /\ Results' = Put(Results, repoNames[i], DeployResult(success))
         /\ firstError' = IF ~success /\ firstError = Nil /\ ~continueOnError
                          THEN [kind |-> "failed", names |-> {repoNames[i]}]
                          ELSE firstError
         /\ outcome' = [outcome EXCEPT ![i] = IF success THEN "ok" ELSE "fail"]
    /\ st' = [st EXCEPT ![i] = "recorded"]
    /\ UNCHANGED <<repoNames, strategy, maxParallel, continueOnError, dpc, gi,
                   semaphore, ctxDone, lateStart, groupErr, groupSuccess>>

\* the deferred receive from the semaphore channel, then wg.Done
Release(i) ==
    /\ st[i] = "recorded"
    /\ semaphore' = semaphore - 1
    /\ st' = [st EXCEPT ![i] = "done"]
    /\ UNCHANGED <<repoNames, strategy, maxParallel, continueOnError, dpc, gi,
                   firstError, Results, ctxDone, lateStart, outcome, groupErr,
                   groupSuccess>>

\* lines 129-146: the error deployGroupParallel returns
ParallelError ==
    IF ~continueOnError /\ firstError # Nil
    THEN firstError
    ELSE LET failures == { n \in DOMAIN Results : ~Results[n].Success }
         IN  IF failures # {} THEN [kind |-> "failures", names |-> failures]
             ELSE Nil

AllGoroutinesDone_NoWait == TRUE

\* line 127: wg.Wait returns when every goroutine has called wg.Done
AllGoroutinesDone == \A i \in Members : st[i] = "done"

\* wg.Wait returns; deployGroupParallel and DeployGroup return
ParallelReturn ==
    /\ dpc = "wait"
    /\ AllGoroutinesDone
    /\ groupErr' = ParallelError
    /\ groupSuccess' = (ParallelError = Nil)
    /\ dpc' = "returned"
    /\ UNCHANGED <<repoNames, strategy, maxParallel, continueOnError, gi, st,
                   semaphore, firstError, Results, ctxDone, lateStart, outcome>>

SeqCanStart_Any(i) == st[i] = "new"

\* line 154-155: the member the sequential loop calls deployRepository for is
\* the one at the loop index, reached only after the call before it returned
SeqCanStart(i) == i = gi /\ st[i] = "new"

\* deployGroupSequential: the loop calls deployRepository for the next member
SeqStart ==
    /\ dpc = "seq"
    /\ \E i \in Members :
         /\ SeqCanStart(i)
         /\ st' = [st EXCEPT ![i] = "running"]
         /\ lateStart' = [lateStart EXCEPT ![i] = ctxDone]
    /\ UNCHANGED <<repoNames, strategy, maxParallel, continueOnError, dpc, gi,
                   semaphore, firstError, Results, ctxDone, outcome, groupErr,
                   groupSuccess>>

SeqStopsOnFailure_Never(success) == FALSE

\* lines 158-161: the failure that ends the sequential loop
SeqStopsOnFailure(success) == ~success /\ ~continueOnError

\* deployRepository returns to the sequential loop (lines 156-175); the loop
\* returns or moves on to the next member
SeqFinish ==
    /\ dpc = "seq"
    /\ st[gi] = "running"
    /\ \E success \in DeployOutcomes(gi) :
         /\ Results' = Put(Results, repoNames[gi], DeployResult(success))
         /\ outcome' = [outcome EXCEPT ![gi] = IF success THEN "ok" ELSE "fail"]
         /\ IF SeqStopsOnFailure(success)
            THEN /\ groupErr' = [kind |-> "failed", names |-> {repoNames[gi]}]
                 /\ groupSuccess' = FALSE
                 /\ dpc' = "returned"
                 /\ gi' = gi
            ELSE IF ctxDone
            THEN /\ groupErr' = [kind |-> "timeout", names |-> {}]
                 /\ groupSuccess' = FALSE
                 /\ dpc' = "returned"
                 /\ gi' = gi
            ELSE IF gi = Len(repoNames)
            THEN /\ groupErr' = Nil
                 /\ groupSuccess' = TRUE
                 /\ dpc' = "returned"
                 /\ gi' = gi
            ELSE /\ gi' = gi + 1
                 /\ UNCHANGED <<groupErr, groupSuccess, dpc>>
    /\ st' = [st EXCEPT ![gi] = "done"]
    /\ UNCHANGED <<repoNames, strategy, maxParallel, continueOnError, semaphore,
                   firstError, ctxDone, lateStart>>

----------------------------------------------------------------------------
(* Repository deployer: concurrent calls of deployRepository                *)

VARIABLES
    cleanup,      \* config.Global.Cleanup
    clock,        \* time.Now().Unix()
    fs,           \* the directories that exist under the temp directory
    rpc,          \* position of each call: "lookup", "mktemp", "clone", "cmd",
                  \* "running", "defer", "returned" ("off": no call)
    repoName,     \* the repoName argument of each call
    rctx,         \* whether the context of the call is done
    individual,   \* whether the call comes from DeployIndividual
    elapsed,      \* whether the deadline configured for the call has passed
    cmdTimedOut,  \* whether the 5 minutes of the current command have passed
    tmpDir,       \* the tmpDir local of each call ("" before it is set)
    cmdIdx,       \* the index of the command loop
    res,          \* the DeployResult of each call
    started,      \* history: the commands handed to /bin/sh, in order
    failedAt,     \* history: index of the first command that failed (0: none)
    evicted       \* history: calls whose directory another call removed

deployVars == <<cleanup, clock, fs, rpc, repoName, rctx, individual, elapsed,
                cmdTimedOut, tmpDir, cmdIdx, res, started, failedAt, evicted>>

MaxClock == 1

Deployers == {1, 2}

DeployNames == {"r1", "r3", "rX"}

\* RepositoryConfig.Deploy.Commands of the configured repositories
DeployCommands(name) ==
    IF name = "r1" THEN <<"make build", "make deploy">>
    ELSE IF name \in {"r2", "r3"} THEN <<"./deploy.sh">>
    ELSE <<>>

FindRepository_Always(name) == TRUE

\* lines 202-208: the search of d.config.Repositories by name
FindRepository(name) == \E i \in DOMAIN Repositories : Repositories[i].Name = name

getTempDir == "/tmp/sentry"

\* line 273: filepath.Join(baseDir, fmt.Sprintf("sentry-%s-%d", repoName, unix))
TempPath(name, unix) ==
    getTempDir \o "/" \o "sentry-" \o name \o "-" \o ToString(unix)

NewResult ==
    [Success |-> FALSE, Error |-> "", CommandsRun |-> <<>>, ClonePath |-> ""]

\* the calls that hold a workspace and have not returned
InProgress(d) == rpc[d] \in {"clone", "cmd", "running", "defer"}

InitDeploy ==
    /\ cleanup \in BOOLEAN
    /\ clock = 0
    /\ fs = {}
    /\ rpc = [d \in Deployers |-> "lookup"]
    /\ repoName \in [Deployers -> DeployNames]
    /\ rctx = [d \in Deployers |-> FALSE]
    /\ individual \in [Deployers -> BOOLEAN]
    /\ elapsed = [d \in Deployers |-> FALSE]
    /\ cmdTimedOut = [d \in Deployers |-> FALSE]
    /\ tmpDir = [d \in Deployers |-> ""]
    /\ cmdIdx = [d \in Deployers |-> 1]
    /\ res = [d \in Deployers |-> NewResult]
    /\ started = [d \in Deployers |-> <<>>]
    /\ failedAt = [d \in Deployers |-> 0]
    /\ evicted = {}

NoDeploy ==
    /\ cleanup = TRUE
    /\ clock = 0
    /\ fs = {}
    /\ rpc = [d \in Deployers |-> "off"]
    /\ repoName = [d \in Deployers |-> "r1"]
    /\ rctx = [d \in Deployers |-> FALSE]
    /\ individual = [d \in Deployers |-> FALSE]
    /\ elapsed = [d \in Deployers |-> FALSE]
    /\ cmdTimedOut = [d \in Deployers |-> FALSE]
    /\ tmpDir = [d \in Deployers |-> ""]
    /\ cmdIdx = [d \in Deployers |-> 1]
    /\ res = [d \in Deployers |-> NewResult]
    /\ started = [d \in Deployers |-> <<>>]
    /\ failedAt = [d \in Deployers |-> 0]
    /\ evicted = {}

\* a second of wall-clock time passes
Second ==
    /\ clock < MaxClock
    /\ \E d \in Deployers : rpc[d] \notin {"off", "returned"}
    /\ clock' = clock + 1
    /\ UNCHANGED <<individual, elapsed, cmdTimedOut, cleanup, fs, rpc, repoName, rctx, tmpDir, cmdIdx, res, started,
                   failedAt, evicted>>

\* the context of the call once its deadline has passed: DeployGroup hands
\* down context.WithTimeout(GlobalTimeout) (lines 83, 151), DeployIndividual
\* hands down context.Background() (line 180), which is never done
ContextFor(isIndividual, done) == IF isIndividual THEN done ELSE TRUE

\* the deadline configured for the call passes: the group's global_timeout,
\* or global.timeout for an individual deployment
CtxDone(d) ==
    /\ rpc[d] \notin {"off", "returned"}
    /\ ~elapsed[d]
    /\ elapsed' = [elapsed EXCEPT ![d] = TRUE]
    /\ rctx' = [rctx EXCEPT ![d] = ContextFor(individual[d], rctx[d])]
    /\ UNCHANGED <<cleanup, clock, fs, rpc, repoName, individual, cmdTimedOut, tmpDir,
                   cmdIdx, res, started, failedAt, evicted>>

\* line 345: the 5 minutes of the command that is running pass
CmdTimeout(d) ==
    /\ rpc[d] = "running"
    /\ ~cmdTimedOut[d]
    /\ cmdTimedOut' = [cmdTimedOut EXCEPT ![d] = TRUE]
    /\ UNCHANGED <<cleanup, clock, fs, rpc, repoName, rctx, individual, elapsed, tmpDir,
                   cmdIdx, res, started, failedAt, evicted>>

\* lines 200-214
Lookup(d) ==
    /\ rpc[d] = "lookup"
    /\ IF FindRepository(repoName[d])
       THEN /\ rpc' = [rpc EXCEPT ![d] = "mktemp"]
            /\ res' = res
       ELSE /\ rpc' = [rpc EXCEPT ![d] = "returned"]
            /\ res' = [res EXCEPT ![d].Error = "repository configuration not found"]
    /\ UNCHANGED <<individual, elapsed, cmdTimedOut, cleanup, clock, fs, repoName, rctx, tmpDir, cmdIdx, started,
                   failedAt, evicted>>

\* lines 222-228 with createTempDirectory (267-287): an existing directory of
\* that name is removed and the directory is made anew
CreateTempDirectory(d) ==
    /\ rpc[d] = "mktemp"
    /\ \E ok \in BOOLEAN :
         IF ok
         THEN LET path == TempPath(repoName[d], clock)
              IN  /\ fs' = fs \cup {path}
                  /\ evicted' = IF path \in fs
                                THEN evicted \cup { e \in Deployers \ {d} :
                                                      InProgress(e) /\ tmpDir[e] = path }
                                ELSE evicted
                  /\ tmpDir' = [tmpDir EXCEPT ![d] = path]
                  /\ res' = [res EXCEPT ![d].ClonePath = path]
                  /\ rpc' = [rpc EXCEPT ![d] = "clone"]
         ELSE /\ res' = [res EXCEPT ![d].Error = "failed to create temp directory"]
              /\ rpc' = [rpc EXCEPT ![d] = "returned"]
              /\ UNCHANGED <<fs, evicted, tmpDir>>
    /\ UNCHANGED <<individual, elapsed, cmdTimedOut, cleanup, clock, repoName, rctx, cmdIdx, started, failedAt>>

AfterCloneFailure_RunsCommands == "cmd"

\* lines 242-246: a failed clone returns the result at once; what is left to
\* run is the deferred cleanup of lines 231-239
AfterCloneFailure == "defer"

\* lines 242-246 with cloneQARepository: git clone under the call's context
CloneQARepository(d) ==
    /\ rpc[d] = "clone"
    /\ \E ok \in (IF rctx[d] THEN {FALSE} ELSE BOOLEAN) :
         IF ok
         THEN /\ fs' = fs \cup {tmpDir[d]}
              /\ rpc' = [rpc EXCEPT ![d] = "cmd"]
              /\ res' = res
         ELSE /\ fs' = fs
              /\ res' = [res EXCEPT ![d].Error = "failed to clone QA repository"]
              /\ rpc' = [rpc EXCEPT ![d] = AfterCloneFailure]
    /\ UNCHANGED <<individual, elapsed, cmdTimedOut, cleanup, clock, repoName, rctx, tmpDir, cmdIdx, started,
                   failedAt, evicted>>

\* executeDeploymentCommands, lines 338-354: the next command is handed to
\* /bin/sh and the loop waits in CombinedOutput
CmdStart(d) ==
    /\ rpc[d] = "cmd"
    /\ cmdIdx[d] <= Len(DeployCommands(repoName[d]))
    /\ started' = [started EXCEPT ![d] = Append(@, DeployCommands(repoName[d])[cmdIdx[d]])]
    /\ rpc' = [rpc EXCEPT ![d] = "running"]
    /\ cmdTimedOut' = [cmdTimedOut EXCEPT ![d] = FALSE]
    /\ UNCHANGED <<individual, elapsed, cleanup, clock, fs, repoName, rctx, tmpDir, cmdIdx, res,
                   failedAt, evicted>>

CommandContext_IgnoresOuter(parentDone, timedOut) == timedOut

\* line 345: cmdCtx is context.WithTimeout(ctx, 5*time.Minute): it is done
\* when ctx is done or when the 5 minutes have passed
CommandContext(parentDone, timedOut) == parentDone \/ timedOut

StopOnCommandError_Never(err) == FALSE

\* lines 359-366: the loop returns the error of the command that failed
StopOnCommandError(err) == err

\* lines 354-372 and 249-256: CombinedOutput returns, the command is appended
\* to CommandsRun, and the loop goes on, fails, or ends
CmdFinish(d) ==
    /\ rpc[d] = "running"
    /\ \E ok \in (IF CommandContext(rctx[d], cmdTimedOut[d]) THEN {FALSE} ELSE BOOLEAN) :
         LET cmds == DeployCommands(repoName[d])
             run == Append(res[d].CommandsRun, cmds[cmdIdx[d]])
         IN  /\ failedAt' = IF ~ok /\ failedAt[d] = 0
                            THEN [failedAt EXCEPT ![d] = cmdIdx[d]]
                            ELSE failedAt
             /\ IF StopOnCommandError(~ok)
                THEN /\ res' = [res EXCEPT ![d].CommandsRun = run,
                                           ![d].Error = "failed to execute commands"]
                     /\ rpc' = [rpc EXCEPT ![d] = "defer"]
                     /\ cmdIdx' = cmdIdx
                ELSE IF cmdIdx[d] = Len(cmds)
                THEN /\ res' = [res EXCEPT ![d].CommandsRun = run,
                                           ![d].Success = TRUE]
                     /\ rpc' = [rpc EXCEPT ![d] = "defer"]
                     /\ cmdIdx' = [cmdIdx EXCEPT ![d] = @ + 1]
                ELSE /\ res' = [res EXCEPT ![d].CommandsRun = run]
                     /\ rpc' = [rpc EXCEPT ![d] = "cmd"]
                     /\ cmdIdx' = [cmdIdx EXCEPT ![d] = @ + 1]
    /\ UNCHANGED <<cleanup, clock, fs, repoName, rctx, individual, elapsed, cmdTimedOut,
                   tmpDir, started, evicted>>

\* lines 397-399
shouldCleanup == cleanup

RunsDeferredCleanup_OnlyOnSuccess(success) == shouldCleanup /\ success

\* lines 231-239: the deferred function runs on every return after the
\* workspace was made, whatever the result
RunsDeferredCleanup(success) == shouldCleanup

\* cleanupTempDirectory, lines 379-386
cleanupTempDirectory(files, dir) ==
    IF dir = "" \/ dir = "/" THEN files ELSE files \ {dir}

\* deployRepository returns: the deferred function runs
Return(d) ==
    /\ rpc[d] = "defer"
    /\ fs' = IF RunsDeferredCleanup(res[d].Success)
             THEN cleanupTempDirectory(fs, tmpDir[d])
             ELSE fs
    /\ rpc' = [rpc EXCEPT ![d] = "returned"]
    /\ UNCHANGED <<individual, elapsed, cmdTimedOut, cleanup, clock, repoName, rctx, tmpDir, cmdIdx, res, started,
                   failedAt, evicted>>

----------------------------------------------------------------------------
(* Watch mode: watchAction and the goroutine that runs the polling loop     *)

VARIABLES
    wpc,          \* watchAction: "select", "returned" ("off": not running)
    wret,         \* what watchAction returned ("" before it returns)
    signalChan,   \* number of signals buffered in signalChan (capacity 1)
    monitorChan,  \* the errors buffered in monitorChan (capacity 1)
    lpc,          \* the goroutine: "startMonitoring", "StartMonitoring",
                  \* "loop", "returned"
    tickerC,      \* number of ticks buffered in ticker.C (capacity 1)
    ticks         \* the calls of CheckAllRepositories made so far, in order

watchVars == <<wpc, wret, signalChan, monitorChan, lpc, tickerC, ticks>>

MaxTicks == 4

MaxDeploys == 2

InitWatch ==
    /\ wpc = "select"
    /\ wret = ""
    /\ signalChan = 0
    /\ monitorChan = <<>>
    /\ lpc = "startMonitoring"
    /\ tickerC = 0
    /\ ticks = <<>>

NoWatch ==
    /\ wpc = "off"
    /\ wret = ""
    /\ signalChan = 0
    /\ monitorChan = <<>>
    /\ lpc = "returned"
    /\ tickerC = 0
    /\ ticks = <<>>

\* the goroutines run until main returns
ProcessAlive == wpc = "select"

ActiveTicks == { t \in DOMAIN ticks : ticks[t].phase # "returned" }

LoopReady_Always == TRUE

\* CheckAllRepositories is called synchronously by the one goroutine: it gets
\* to its next call only when the call before has returned
LoopReady == ActiveTicks = {}

\* a call of CheckAllRepositories as it is entered. overrun: the ticker fired
\* while this call was in its dispatch loops; queued: this call was entered
\* for a tick that had fired during the dispatch of the call before it
NewTick == [phase |-> "scan", err |-> FALSE, left |-> 0, deploying |-> FALSE,
            ticker |-> lpc = "loop", overrun |-> FALSE,
            queued |-> ticks # <<>> /\ ticks[Len(ticks)].overrun]

\* SIGINT or SIGTERM is delivered (signal.Notify does not block)
Signal ==
    /\ ProcessAlive
    /\ signalChan = 0
    /\ signalChan' = 1
    /\ UNCHANGED <<wpc, wret, monitorChan, lpc, tickerC, ticks>>

\* the ticker fires: the tick is put in ticker.C, whatever the loop is doing;
\* a tick is dropped when ticker.C is full
TickerFires ==
    /\ ProcessAlive
    /\ lpc = "loop"
    /\ tickerC = 0
    /\ tickerC' = 1
    /\ ticks' = [t \in DOMAIN ticks |->
                   IF ticks[t].phase = "dispatch"
                   THEN [ticks[t] EXCEPT !.overrun = TRUE]
                   ELSE ticks[t]]
    /\ UNCHANGED <<wpc, wret, signalChan, monitorChan, lpc>>

\* the initial checks of startMonitoring and of StartMonitoring are entered
InitialCheck ==
    /\ ProcessAlive
    /\ lpc \in {"startMonitoring", "StartMonitoring"}
    /\ LoopReady
    /\ Len(ticks) < MaxTicks
    /\ ticks' = Append(ticks, NewTick)
    /\ UNCHANGED <<wpc, wret, signalChan, monitorChan, lpc, tickerC>>

\* the polling loop receives from ticker.C and enters CheckAllRepositories
TickerReceive ==
    /\ ProcessAlive
    /\ lpc = "loop"
    /\ LoopReady
    /\ tickerC = 1
    /\ Len(ticks) < MaxTicks
    /\ tickerC' = 0
    /\ ticks' = Append(ticks, NewTick)
    /\ UNCHANGED <<wpc, wret, signalChan, monitorChan, lpc>>

\* CheckAllRepositories: the scan loop; n triggers come out of it
Scan(t) ==
    /\ ProcessAlive
    /\ ticks[t].phase = "scan"
    /\ \E failed \in BOOLEAN : \E n \in 0..MaxDeploys :
         ticks' = [ticks EXCEPT ![t].phase = "dispatch",
                                ![t].err = failed,
                                ![t].left = n]
    /\ UNCHANGED <<wpc, wret, signalChan, monitorChan, lpc, tickerC>>

\* CheckAllRepositories: the dispatch loops call the deployer
DeployStart(t) ==
    /\ ProcessAlive
    /\ ticks[t].phase = "dispatch"
    /\ ticks[t].left > 0
    /\ ~ticks[t].deploying
    /\ ticks' = [ticks EXCEPT ![t].deploying = TRUE]
    /\ UNCHANGED <<wpc, wret, signalChan, monitorChan, lpc, tickerC>>

\* the deployer returns into the dispatch loop
DeployFinish(t) ==
    /\ ProcessAlive
    /\ ticks[t].deploying
    /\ \E ok \in BOOLEAN :
         ticks' = [ticks EXCEPT ![t].deploying = FALSE,
                                ![t].left = @ - 1,
                                ![t].err = @ \/ ~ok]
    /\ UNCHANGED <<wpc, wret, signalChan, monitorChan, lpc, tickerC>>

\* CheckAllRepositories returns to its caller: an initial check that failed
\* ends the goroutine with an error on monitorChan, the loop only logs
EndCheck(t) ==
    /\ ProcessAlive
    /\ ticks[t].phase = "dispatch"
    /\ ticks[t].left = 0
    /\ ~ticks[t].deploying
    /\ ticks' = [ticks EXCEPT ![t].phase = "returned"]
    /\ IF lpc = "loop"
       THEN UNCHANGED <<lpc, monitorChan>>
       ELSE IF ticks[t].err
       THEN /\ lpc' = "returned"
            /\ monitorChan' = IF monitorChan = <<>>
                              THEN <<"initial repository check failed">>
                              ELSE monitorChan
       ELSE /\ lpc' = IF lpc = "startMonitoring" THEN "StartMonitoring" ELSE "loop"
            /\ monitorChan' = monitorChan
    /\ UNCHANGED <<wpc, wret, signalChan, tickerC>>

\* watchAction's select takes the signal case and returns nil
ReceiveSignal ==
    /\ wpc = "select"
    /\ signalChan = 1
    /\ signalChan' = 0
    /\ wret' = "nil"
    /\ wpc' = "returned"
    /\ UNCHANGED <<monitorChan, lpc, tickerC, ticks>>

\* watchAction's select takes the monitorChan case
ReceiveMonitorError ==
    /\ wpc = "select"
    /\ monitorChan # <<>>
    /\ monitorChan' = <<>>
    /\ wret' = "monitoring failed"
    /\ wpc' = "returned"
    /\ UNCHANGED <<signalChan, lpc, tickerC, ticks>>

----------------------------------------------------------------------------
(* Change detector under concurrency: calls of checkRepositoryBranch for    *)
(* one (repo, branch), step by step                                         *)

VARIABLES
    head,         \* the fingerprint the platform returns for the branch
    seen,         \* m.lastCommit[cacheKey]: <<>> when absent, else <<sha>>
    bpc,          \* position of each call: "fetch", "read", "logInitial",
                  \* "compare", "store", "returned", "panicked" ("off")
    commitSHA,    \* commit.SHA of each call
    lastSHA,      \* the lastSHA local of each call
    bret          \* what each call returned

branchVars == <<head, seen, bpc, commitSHA, lastSHA, bret>>

Callers == {1, 2}

Fingerprints == {"aaaaaaaa", "bbbbbbbb", "abc1234", ""}

\* Go's s[:8] panics when the string is shorter than 8 bytes
SlicePanics(s) == Len(s) < 8

NoReturn == [changed |-> FALSE, err |-> FALSE]

InitBranch ==
    /\ head \in Fingerprints
    /\ seen \in {<<>>} \cup { <<f>> : f \in Fingerprints }
    /\ bpc = [c \in Callers |-> "fetch"]
    /\ commitSHA = [c \in Callers |-> ""]
    /\ lastSHA = [c \in Callers |-> ""]
    /\ bret = [c \in Callers |-> NoReturn]

NoBranch ==
    /\ head = "aaaaaaaa"
    /\ seen = <<>>
    /\ bpc = [c \in Callers |-> "off"]
    /\ commitSHA = [c \in Callers |-> ""]
    /\ lastSHA = [c \in Callers |-> ""]
    /\ bret = [c \in Callers |-> NoReturn]

\* a panic in any goroutine ends the process
Running(c) == bpc[c] # "off" /\ \A o \in Callers : bpc[o] # "panicked"

\* lines 179-182: GetLatestCommit
BranchFetch(c) ==
    /\ Running(c)
    /\ bpc[c] = "fetch"
    /\ \E ok \in BOOLEAN :
         IF ok
         THEN /\ commitSHA' = [commitSHA EXCEPT ![c] = head]
              /\ bpc' = [bpc EXCEPT ![c] = "read"]
              /\ bret' = bret
         ELSE /\ bret' = [bret EXCEPT ![c] = [changed |-> FALSE, err |-> TRUE]]
              /\ bpc' = [bpc EXCEPT ![c] = "returned"]
              /\ commitSHA' = commitSHA
    /\ UNCHANGED <<head, seen, lastSHA>>

\* lines 186-198: under m.mu the entry is read and, when absent, set; the
\* lock is released before the comparison
BranchRead(c) ==
    /\ Running(c)
    /\ bpc[c] = "read"
    /\ IF seen = <<>>
       THEN /\ seen' = <<commitSHA[c]>>
            /\ bpc' = [bpc EXCEPT ![c] = "logInitial"]
            /\ lastSHA' = lastSHA
       ELSE /\ lastSHA' = [lastSHA EXCEPT ![c] = seen[1]]
            /\ bpc' = [bpc EXCEPT ![c] = "compare"]
            /\ seen' = seen
    /\ UNCHANGED <<head, commitSHA, bret>>

\* lines 192-196: the log line slices commit.SHA[:8]; then return false, nil
BranchLogInitial(c) ==
    /\ Running(c)
    /\ bpc[c] = "logInitial"
    /\ bpc' = [bpc EXCEPT ![c] = IF SlicePanics(commitSHA[c])
                                  THEN "panicked" ELSE "returned"]
    /\ UNCHANGED <<head, seen, commitSHA, lastSHA, bret>>

\* lines 200-207 and 215: the comparison, outside the lock; the log line of
\* a new commit slices lastSHA[:8] and commit.SHA[:8]
BranchCompare(c) ==
    /\ Running(c)
    /\ bpc[c] = "compare"
    /\ bpc' = [bpc EXCEPT ![c] =
                 IF commitSHA[c] = lastSHA[c] THEN "returned"
                 ELSE IF SlicePanics(lastSHA[c]) \/ SlicePanics(commitSHA[c])
                 THEN "panicked"
                 ELSE "store"]
    /\ UNCHANGED <<head, seen, commitSHA, lastSHA, bret>>

\* lines 209-212: under m.mu the entry is replaced; return true, nil
BranchStore(c) ==
    /\ Running(c)
    /\ bpc[c] = "store"
    /\ seen' = <<commitSHA[c]>>
    /\ bret' = [bret EXCEPT ![c] = [changed |-> TRUE, err |-> FALSE]]
    /\ bpc' = [bpc EXCEPT ![c] = "returned"]
    /\ UNCHANGED <<head, commitSHA, lastSHA>>

----------------------------------------------------------------------------
(* Manual trigger: triggerAction                                            *)

VARIABLES
    tcfg,         \* app.config.Repositories: name and group of each repository
    tpc,          \* "plan", "groups", "individual", "returned" ("off")
    tgroups,      \* the groups map: group name -> member names
    tindividual,  \* the individual slice
    tleft,        \* the groups the range loop has not visited yet
    tidx,         \* index of the loop over individual
    tGroupCalls,  \* the DeployGroup calls made, in order
    tIndCalls,    \* the DeployIndividual calls made, in order
    tret          \* what triggerAction returned ("" before)

triggerVars == <<tcfg, tpc, tgroups, tindividual, tleft, tidx, tGroupCalls,
                 tIndCalls, tret>>

TriggerGroupNames == {"", "G", "H"}

TriggerConfigs ==
    { << [Name |-> "r1", Group |-> g[1]],
         [Name |-> "r2", Group |-> g[2]],
         [Name |-> "r3", Group |-> g[3]] >> : g \in [1..3 -> TriggerGroupNames] }

Names(repos) == [i \in DOMAIN repos |-> repos[i].Name]

InGroup(g, r) == r.Group = g

\* lines 162-171: the repositories are appended to their group's slice, or
\* to individual, in the order of the configuration
PlanGroups(cfg) ==
    [g \in { cfg[i].Group : i \in DOMAIN cfg } \ {""} |->
        Names(SelectSeq(cfg, LAMBDA r : InGroup(g, r)))]

PlanIndividual(cfg) == Names(SelectSeq(cfg, LAMBDA r : InGroup("", r)))

InitTrigger ==
    /\ tcfg \in TriggerConfigs
    /\ tpc = "plan"
    /\ tgroups = EmptyMap
    /\ tindividual = <<>>
    /\ tleft = {}
    /\ tidx = 1
    /\ tGroupCalls = <<>>
    /\ tIndCalls = <<>>
    /\ tret = ""

NoTrigger ==
    /\ tcfg = <<>>
    /\ tpc = "off"
    /\ tgroups = EmptyMap
    /\ tindividual = <<>>
    /\ tleft = {}
    /\ tidx = 1
    /\ tGroupCalls = <<>>
    /\ tIndCalls = <<>>
    /\ tret = ""

\* lines 161-171
TriggerPlan ==
    /\ tpc = "plan"
    /\ tgroups' = PlanGroups(tcfg)
    /\ tindividual' = PlanIndividual(tcfg)
    /\ tleft' = DOMAIN PlanGroups(tcfg)
    /\ tpc' = "groups"
    /\ UNCHANGED <<tcfg, tidx, tGroupCalls, tIndCalls, tret>>

\* lines 174-181: one iteration of the range over the groups map, in no
\* particular order; a failed DeployGroup makes triggerAction return
TriggerGroup ==
    /\ tpc = "groups"
    /\ \E g \in tleft : \E deployed \in BOOLEAN :
         /\ tGroupCalls' = Append(tGroupCalls,
                                  [GroupName |-> g, Repositories |-> tgroups[g]])
         /\ tleft' = tleft \ {g}
         /\ IF deployed
            THEN UNCHANGED <<tpc, tret>>
            ELSE tpc' = "returned" /\ tret' = "group deployment failed"
    /\ UNCHANGED <<tcfg, tgroups, tindividual, tidx, tIndCalls>>

\* the range over the groups map is exhausted
TriggerGroupsDone ==
    /\ tpc = "groups"
    /\ tleft = {}
    /\ tpc' = "individual"
    /\ UNCHANGED <<tcfg, tgroups, tindividual, tleft, tidx, tGroupCalls, tIndCalls, tret>>

\* lines 184-202: one iteration of the loop over individual
TriggerIndividual ==
    /\ tpc = "individual"
    /\ tidx <= Len(tindividual)
    /\ \E deployed \in BOOLEAN :
         /\ tIndCalls' = Append(tIndCalls, tindividual[tidx])
         /\ tidx' = tidx + 1
         /\ IF deployed
            THEN UNCHANGED <<tpc, tret>>
            ELSE tpc' = "returned" /\ tret' = "individual deployment failed"
    /\ UNCHANGED <<tcfg, tgroups, tindividual, tleft, tGroupCalls>>

\* lines 205-206
TriggerReturn ==
    /\ tpc = "individual"
    /\ tidx > Len(tindividual)
    /\ tpc' = "returned"
    /\ tret' = "nil"
    /\ UNCHANGED <<tcfg, tgroups, tindividual, tleft, tidx, tGroupCalls, tIndCalls>>

----------------------------------------------------------------------------
(* Validation: validateAction                                               *)

VARIABLES
    reachable,    \* whether GetLatestCommit succeeds for each probe target
    vpc,          \* "loop", "returned" ("off")
    vidx,         \* position in the probes validateAction makes, in order
    vProbed,      \* the probes made so far, in order
    vret          \* what validateAction returned ("" before)

validateVars == <<reachable, vpc, vidx, vProbed, vret>>

\* testQARepositoryConnectivity (main.go 253-270) probes Deploy.QARepoBranch
QAProbe(repo) == <<repo.Name, "QA">>

\* testRepositoryConnectivity (main.go 238-246) probes each monitored branch
MonitorProbes(repo) == [j \in DOMAIN repo.Branches |-> <<repo.Name, repo.Branches[j]>>]

RepoProbes_MonitorOnly(repo) == MonitorProbes(repo)

\* lines 141-151: for one repository the monitor branches, then the QA branch
RepoProbes(repo) == MonitorProbes(repo) \o <<QAProbe(repo)>>

RECURSIVE ProbesFrom(_)
ProbesFrom(i) ==
    IF i > Len(Repositories) THEN <<>>
    ELSE RepoProbes(Repositories[i]) \o ProbesFrom(i + 1)

\* the probes a run of validateAction makes when none fails
ValidateProbes == ProbesFrom(1)

ProbeTargets == BranchKeys \cup { QAProbe(Repositories[i]) : i \in DOMAIN Repositories }

InitValidate ==
    /\ reachable \in [ProbeTargets -> BOOLEAN]
    /\ vpc = "loop"
    /\ vidx = 1
    /\ vProbed = <<>>
    /\ vret = ""

NoValidate ==
    /\ reachable = [k \in ProbeTargets |-> TRUE]
    /\ vpc = "off"
    /\ vidx = 1
    /\ vProbed = <<>>
    /\ vret = ""

\* one call of GetLatestCommit; its error is returned at once
ValidateProbe ==
    /\ vpc = "loop"
    /\ vidx <= Len(ValidateProbes)
    /\ vProbed' = Append(vProbed, ValidateProbes[vidx])
    /\ IF reachable[ValidateProbes[vidx]]
       THEN /\ vidx' = vidx + 1
            /\ UNCHANGED <<vpc, vret>>
       ELSE /\ vpc' = "returned"
            /\ vret' = "connectivity test failed"
            /\ vidx' = vidx
    /\ UNCHANGED reachable

\* lines 153-154
ValidateReturn ==
    /\ vpc = "loop"
    /\ vidx > Len(ValidateProbes)
    /\ vpc' = "returned"
    /\ vret' = "nil"
    /\ UNCHANGED <<reachable, vidx, vProbed>>

----------------------------------------------------------------------------
(* Configuration validation: isValidK8sName and validateConfig              *)

VARIABLES
    kname,        \* the name handed to isValidK8sName, one character per element
    kpc,          \* "call", "returned" ("off")
    kvalid,       \* what isValidK8sName returned
    cfg,          \* the Config handed to validateConfig
    cpc,          \* "call", "returned" ("off")
    cverdict      \* the error validateConfig returned ("nil": none)

configVars == <<kname, kpc, kvalid, cfg, cpc, cverdict>>

MaxShortLen == 3

K8sNameMax == 253

LowerLetters ==
    {"a", "b", "c", "d", "e", "f", "g", "h", "i", "j", "k", "l", "m",
     "n", "o", "p", "q", "r", "s", "t", "u", "v", "w", "x", "y", "z"}

Digits == {"0", "1", "2", "3", "4", "5", "6", "7", "8", "9"}

\* the class [a-z0-9]
AlNumClass == LowerLetters \cup Digits

\* the class [a-z0-9\-]
AlNumDashClass == AlNumClass \cup {"-"}

\* regexp.MatchString(`^[a-z0-9]([a-z0-9\-]*[a-z0-9])?$`, name): one
\* character of the first class, then optionally any run of the second class
\* ended by one of the first, anchored at both ends
RegexMatch(name) ==
    /\ Len(name) >= 1
    /\ name[1] \in AlNumClass
    /\ \/ Len(name) = 1
       \/ /\ \A i \in 2..(Len(name) - 1) : name[i] \in AlNumDashClass
          /\ name[Len(name)] \in AlNumClass

isValidK8sName_NoLengthLimit(name) == RegexMatch(name)

\* config.go lines 267-276
isValidK8sName(name) ==
    IF Len(name) = 0 \/ Len(name) > K8sNameMax THEN FALSE ELSE RegexMatch(name)

NameChars == {"a", "9", "-", "B", "_"}

RagV2 == <<"r", "a", "g", "-", "v", "2">>

BadName == <<"B", "a", "d", "_", "N", "a", "m", "e">>

LongName(n) == [i \in 1..n |-> "a"]

NameInputs ==
    UNION { [1..n -> NameChars] : n \in 0..MaxShortLen }
      \cup { RagV2, BadName, <<"-", "t", "e", "s", "t">>, <<"t", "e", "s", "t", "-">>,
             LongName(K8sNameMax), LongName(K8sNameMax + 1),
             Append(LongName(K8sNameMax - 1), "-") }

InitK8sName ==
    /\ kname \in NameInputs
    /\ kpc = "call"
    /\ kvalid = FALSE

K8sNameCheck ==
    /\ kpc = "call"
    /\ kvalid' = isValidK8sName(kname)
    /\ kpc' = "returned"
    /\ UNCHANGED <<kname, cfg, cpc, cverdict>>

PollingIntervals == {0, 59, 60}

GroupConfigs ==
    [ExecutionStrategy : {"parallel", "sequential", "random"},
     MaxParallel : {0, 1},
     GlobalTimeout : {0, 1}]

\* a repository as far as validateConfig looks at it; FieldsOK stands for the
\* checks of the URLs, branches, repo types, tokens and commands
RepoInputs ==
    [Name : {"a", "b"}, Group : {"", "G", "H"},
     ProjectName : {RagV2, BadName}, FieldsOK : BOOLEAN]

ConfigInputs ==
    [PollingInterval : PollingIntervals,
     Groups : {EmptyMap} \cup { [g \in {"G"} |-> gc] : gc \in GroupConfigs },
     Repositories : UNION { [1..n -> RepoInputs] : n \in 0..2 }]

\* validateRepositoryConfig with validateMonitorConfig, validateDeployConfig
\* and validateAuthConfig (lines 176-247)
validateRepositoryConfig(repo) ==
    IF ~repo.FieldsOK THEN "repository field invalid"
    ELSE IF ~isValidK8sName(repo.ProjectName) THEN "project_name invalid"
    ELSE "nil"

\* lines 250-264
validateGroupConfig(group) ==
    IF group.ExecutionStrategy # "parallel" /\ group.ExecutionStrategy # "sequential"
    THEN "execution_strategy invalid"
    ELSE IF group.MaxParallel <= 0 THEN "max_parallel must be positive"
    ELSE IF group.GlobalTimeout <= 0 THEN "global_timeout must be positive"
    ELSE "nil"

GroupDefined_Always(config, g) == TRUE

\* lines 154-160: the group a repository names is a key of config.Groups
GroupDefined(config, g) == g \in DOMAIN config.Groups

\* lines 141-162: the loop over the repositories, from index i on, with the
\* names met so far
RECURSIVE validateRepositories(_, _, _)
validateRepositories(config, i, repoNamesSeen) ==
    IF i > Len(config.Repositories) THEN "nil"
    ELSE LET repo == config.Repositories[i]
         IN  IF repo.Name \in repoNamesSeen THEN "duplicate repository name"
             ELSE IF validateRepositoryConfig(repo) # "nil"
                  THEN validateRepositoryConfig(repo)
             ELSE IF repo.Group # "" /\ ~GroupDefined(config, repo.Group)
                  THEN "undefined group"
             ELSE validateRepositories(config, i + 1, repoNamesSeen \cup {repo.Name})

\* lines 164-169: every group of config.Groups is validated
validateGroups(config) ==
    IF \E g \in DOMAIN config.Groups : validateGroupConfig(config.Groups[g]) # "nil"
    THEN LET g == CHOOSE g \in DOMAIN config.Groups :
                     validateGroupConfig(config.Groups[g]) # "nil"
         IN  validateGroupConfig(config.Groups[g])
    ELSE "nil"

\* lines 127-173
validateConfig(config) ==
    IF config.PollingInterval <= 0 THEN "polling_interval must be positive"
    ELSE IF config.PollingInterval < 60 THEN "polling_interval must be at least 60"
    ELSE IF Len(config.Repositories) = 0 THEN "at least one repository"
    ELSE IF validateRepositories(config, 1, {}) # "nil"
         THEN validateRepositories(config, 1, {})
    ELSE validateGroups(config)

NoConfigInput ==
    [PollingInterval |-> 60, Groups |-> EmptyMap, Repositories |-> <<>>]

InitConfig ==
    /\ cfg \in ConfigInputs
    /\ cpc = "call"
    /\ cverdict = ""

ConfigCheck ==
    /\ cpc = "call"
    /\ cverdict' = validateConfig(cfg)
    /\ cpc' = "returned"
    /\ UNCHANGED <<cfg, kname, kpc, kvalid>>

NoK8sName == kname = <<>> /\ kpc = "off" /\ kvalid = FALSE

NoConfigCheck == cfg = NoConfigInput /\ cpc = "off" /\ cverdict = ""

NoConfig == NoK8sName /\ NoConfigCheck

----------------------------------------------------------------------------
(* Specifications                                                          *)

vars == <<monitorVars, probeVars, groupVars, deployVars, watchVars, branchVars, triggerVars, validateVars, configVars>>

Init == InitMonitor /\ NoProbe /\ NoGroup /\ NoDeploy /\ NoWatch /\ NoBranch /\ NoTrigger /\ NoValidate /\ NoConfig

Next ==
    \/ (Push /\ UNCHANGED <<probeVars, groupVars, deployVars, watchVars, branchVars, triggerVars, validateVars, configVars>>)
    \/ (BeginTick /\ UNCHANGED <<probeVars, groupVars, deployVars, watchVars, branchVars, triggerVars, validateVars, configVars>>)
    \/ (ScanRepo /\ UNCHANGED <<probeVars, groupVars, deployVars, watchVars, branchVars, triggerVars, validateVars, configVars>>)
    \/ (DispatchGroup /\ UNCHANGED <<probeVars, groupVars, deployVars, watchVars, branchVars, triggerVars, validateVars, configVars>>)
    \/ (DispatchIndividual /\ UNCHANGED <<probeVars, groupVars, deployVars, watchVars, branchVars, triggerVars, validateVars, configVars>>)
    \/ (EndTick /\ UNCHANGED <<probeVars, groupVars, deployVars, watchVars, branchVars, triggerVars, validateVars, configVars>>)

Spec == Init /\ [][Next]_vars

InitProbeOnly == NoMonitor /\ InitProbe /\ NoGroup /\ NoDeploy /\ NoWatch /\ NoBranch /\ NoTrigger /\ NoValidate /\ NoConfig

NextProbe == Attempt /\ UNCHANGED <<monitorVars, groupVars, deployVars, watchVars, branchVars, triggerVars, validateVars, configVars>>

SpecProbe == InitProbeOnly /\ [][NextProbe]_vars

\* every request returns (the HTTP client has a timeout) and the loop goes on
SpecProbeFair == SpecProbe /\ WF_vars(NextProbe)

InitGroupOnly == NoMonitor /\ NoProbe /\ InitGroup /\ NoDeploy /\ NoWatch /\ NoBranch /\ NoTrigger /\ NoValidate /\ NoConfig

NextGroup ==
    \/ (Deadline /\ UNCHANGED <<monitorVars, probeVars, deployVars, watchVars, branchVars, triggerVars, validateVars, configVars>>)
    \/ (Spawn /\ UNCHANGED <<monitorVars, probeVars, deployVars, watchVars, branchVars, triggerVars, validateVars, configVars>>)
    \/ (\E i \in Members : Acquire(i) /\ UNCHANGED <<monitorVars, probeVars, deployVars, watchVars, branchVars, triggerVars, validateVars, configVars>>)
    \/ (\E i \in Members : TimeoutWaiting(i) /\ UNCHANGED <<monitorVars, probeVars, deployVars, watchVars, branchVars, triggerVars, validateVars, configVars>>)
    \/ (\E i \in Members : Record(i) /\ UNCHANGED <<monitorVars, probeVars, deployVars, watchVars, branchVars, triggerVars, validateVars, configVars>>)
    \/ (\E i \in Members : Release(i) /\ UNCHANGED <<monitorVars, probeVars, deployVars, watchVars, branchVars, triggerVars, validateVars, configVars>>)
    \/ (ParallelReturn /\ UNCHANGED <<monitorVars, probeVars, deployVars, watchVars, branchVars, triggerVars, validateVars, configVars>>)
    \/ (SeqStart /\ UNCHANGED <<monitorVars, probeVars, deployVars, watchVars, branchVars, triggerVars, validateVars, configVars>>)
    \/ (SeqFinish /\ UNCHANGED <<monitorVars, probeVars, deployVars, watchVars, branchVars, triggerVars, validateVars, configVars>>)

SpecGroup == InitGroupOnly /\ [][NextGroup]_vars

InitDeployOnly == NoMonitor /\ NoProbe /\ NoGroup /\ InitDeploy /\ NoWatch /\ NoBranch /\ NoTrigger /\ NoValidate /\ NoConfig

NextDeploy ==
    \/ (Second /\ UNCHANGED <<monitorVars, probeVars, groupVars, watchVars, branchVars, triggerVars, validateVars, configVars>>)
    \/ (\E d \in Deployers : CtxDone(d) /\ UNCHANGED <<monitorVars, probeVars, groupVars, watchVars, branchVars, triggerVars, validateVars, configVars>>)
    \/ (\E d \in Deployers : CmdTimeout(d) /\ UNCHANGED <<monitorVars, probeVars, groupVars, watchVars, branchVars, triggerVars, validateVars, configVars>>)
    \/ (\E d \in Deployers : Lookup(d) /\ UNCHANGED <<monitorVars, probeVars, groupVars, watchVars, branchVars, triggerVars, validateVars, configVars>>)
    \/ (\E d \in Deployers : CreateTempDirectory(d) /\ UNCHANGED <<monitorVars, probeVars, groupVars, watchVars, branchVars, triggerVars, validateVars, configVars>>)
    \/ (\E d \in Deployers : CloneQARepository(d) /\ UNCHANGED <<monitorVars, probeVars, groupVars, watchVars, branchVars, triggerVars, validateVars, configVars>>)
    \/ (\E d \in Deployers : CmdStart(d) /\ UNCHANGED <<monitorVars, probeVars, groupVars, watchVars, branchVars, triggerVars, validateVars, configVars>>)
    \/ (\E d \in Deployers : CmdFinish(d) /\ UNCHANGED <<monitorVars, probeVars, groupVars, watchVars, branchVars, triggerVars, validateVars, configVars>>)
    \/ (\E d \in Deployers : Return(d) /\ UNCHANGED <<monitorVars, probeVars, groupVars, watchVars, branchVars, triggerVars, validateVars, configVars>>)

SpecDeploy == InitDeployOnly /\ [][NextDeploy]_vars

InitWatchOnly == NoMonitor /\ NoProbe /\ NoGroup /\ NoDeploy /\ InitWatch /\ NoBranch /\ NoTrigger /\ NoValidate /\ NoConfig

NextWatch ==
    \/ (Signal /\ UNCHANGED <<monitorVars, probeVars, groupVars, deployVars, branchVars, triggerVars, validateVars, configVars>>)
    \/ (TickerFires /\ UNCHANGED <<monitorVars, probeVars, groupVars, deployVars, branchVars, triggerVars, validateVars, configVars>>)
    \/ (InitialCheck /\ UNCHANGED <<monitorVars, probeVars, groupVars, deployVars, branchVars, triggerVars, validateVars, configVars>>)
    \/ (TickerReceive /\ UNCHANGED <<monitorVars, probeVars, groupVars, deployVars, branchVars, triggerVars, validateVars, configVars>>)
    \/ (\E t \in DOMAIN ticks : Scan(t) /\ UNCHANGED <<monitorVars, probeVars, groupVars, deployVars, branchVars, triggerVars, validateVars, configVars>>)
    \/ (\E t \in DOMAIN ticks : DeployStart(t) /\ UNCHANGED <<monitorVars, probeVars, groupVars, deployVars, branchVars, triggerVars, validateVars, configVars>>)
    \/ (\E t \in DOMAIN ticks : DeployFinish(t) /\ UNCHANGED <<monitorVars, probeVars, groupVars, deployVars, branchVars, triggerVars, validateVars, configVars>>)
    \/ (\E t \in DOMAIN ticks : EndCheck(t) /\ UNCHANGED <<monitorVars, probeVars, groupVars, deployVars, branchVars, triggerVars, validateVars, configVars>>)
    \/ (ReceiveSignal /\ UNCHANGED <<monitorVars, probeVars, groupVars, deployVars, branchVars, triggerVars, validateVars, configVars>>)
    \/ (ReceiveMonitorError /\ UNCHANGED <<monitorVars, probeVars, groupVars, deployVars, branchVars, triggerVars, validateVars, configVars>>)

SpecWatch == InitWatchOnly /\ [][NextWatch]_vars

InitBranchOnly == NoMonitor /\ NoProbe /\ NoGroup /\ NoDeploy /\ NoWatch /\ InitBranch /\ NoTrigger /\ NoValidate /\ NoConfig

NextBranch ==
    \/ (\E c \in Callers : BranchFetch(c) /\ UNCHANGED <<monitorVars, probeVars, groupVars, deployVars, watchVars, triggerVars, validateVars, configVars>>)
    \/ (\E c \in Callers : BranchRead(c) /\ UNCHANGED <<monitorVars, probeVars, groupVars, deployVars, watchVars, triggerVars, validateVars, configVars>>)
    \/ (\E c \in Callers : BranchLogInitial(c) /\ UNCHANGED <<monitorVars, probeVars, groupVars, deployVars, watchVars, triggerVars, validateVars, configVars>>)
    \/ (\E c \in Callers : BranchCompare(c) /\ UNCHANGED <<monitorVars, probeVars, groupVars, deployVars, watchVars, triggerVars, validateVars, configVars>>)
    \/ (\E c \in Callers : BranchStore(c) /\ UNCHANGED <<monitorVars, probeVars, groupVars, deployVars, watchVars, triggerVars, validateVars, configVars>>)

SpecBranch == InitBranchOnly /\ [][NextBranch]_vars

InitTriggerOnly ==
    NoMonitor /\ NoProbe /\ NoGroup /\ NoDeploy /\ NoWatch /\ NoBranch /\ InitTrigger /\ NoValidate /\ NoConfig

NextTrigger ==
    \/ (TriggerPlan /\ UNCHANGED <<monitorVars, probeVars, groupVars, deployVars, watchVars, branchVars, validateVars, configVars>>)
    \/ (TriggerGroup /\ UNCHANGED <<monitorVars, probeVars, groupVars, deployVars, watchVars, branchVars, validateVars, configVars>>)
    \/ (TriggerGroupsDone /\ UNCHANGED <<monitorVars, probeVars, groupVars, deployVars, watchVars, branchVars, validateVars, configVars>>)
    \/ (TriggerIndividual /\ UNCHANGED <<monitorVars, probeVars, groupVars, deployVars, watchVars, branchVars, validateVars, configVars>>)
    \/ (TriggerReturn /\ UNCHANGED <<monitorVars, probeVars, groupVars, deployVars, watchVars, branchVars, validateVars, configVars>>)

SpecTrigger == InitTriggerOnly /\ [][NextTrigger]_vars

InitValidateOnly ==
    /\ NoMonitor /\ NoProbe /\ NoGroup /\ NoDeploy /\ NoWatch /\ NoBranch /\ NoTrigger
    /\ InitValidate /\ NoConfig

NextValidate ==
    \/ (ValidateProbe /\ UNCHANGED <<monitorVars, probeVars, groupVars, deployVars, watchVars, branchVars, triggerVars, configVars>>)
    \/ (ValidateReturn /\ UNCHANGED <<monitorVars, probeVars, groupVars, deployVars, watchVars, branchVars, triggerVars, configVars>>)

SpecValidate == InitValidateOnly /\ [][NextValidate]_vars

NoOtherMachine ==
    /\ NoMonitor /\ NoProbe /\ NoGroup /\ NoDeploy /\ NoWatch /\ NoBranch /\ NoTrigger
    /\ NoValidate

InitK8sNameOnly == NoOtherMachine /\ InitK8sName /\ NoConfigCheck

NextK8sName == K8sNameCheck /\ UNCHANGED <<monitorVars, probeVars, groupVars, deployVars, watchVars, branchVars, triggerVars, validateVars>>

SpecK8sName == InitK8sNameOnly /\ [][NextK8sName]_vars

InitConfigOnly == NoOtherMachine /\ NoK8sName /\ InitConfig

NextConfig == ConfigCheck /\ UNCHANGED <<monitorVars, probeVars, groupVars, deployVars, watchVars, branchVars, triggerVars, validateVars>>

SpecConfig == InitConfigOnly /\ [][NextConfig]_vars

----------------------------------------------------------------------------
(* Claims about the poller, checked under Spec                             *)

AllCacheKeys == { cacheKey(k[1], k[2]) : k \in BranchKeys }

TickReturned == mpc \in {"idle", "stopped"}

GroupCallsFor(g) == { i \in DOMAIN groupCalls : groupCalls[i].GroupName = g }

\* C1: in one tick, a group with at least one changed member is dispatched
\* exactly once and the member list handed to DeployGroup is the declared
\* membership of the group, in declaration order, each member once, however
\* many members changed.
C1_GroupTriggerIsFullMembershipOnce ==
    TickReturned =>
      \A g \in Groups :
        (\E n \in changedRepos : n \in Range(GroupMembers(g))) =>
          /\ Cardinality(GroupCallsFor(g)) = 1
          /\ \A i \in GroupCallsFor(g) : groupCalls[i].Repositories = GroupMembers(g)

\* C2: when every probe of the first scan after start-up succeeds, the scan
\* installs the fetched fingerprint for every configured (repo, branch) and
\* triggers no group and no individual deployment.
C2_FirstScanBaselineNoDeploy ==
    /\ (startupScans = 0 /\ TickClean) =>
          /\ triggeredGroups = EmptyMap /\ triggeredIndividual = <<>>
          /\ groupCalls = <<>> /\ indCalls = <<>>
          /\ \A p \in probeLog : Entry(lastCommit, p.key) = p.sha
    /\ (startupScans = 1 /\ TickReturned /\ TickClean) =>
          /\ DOMAIN lastCommit = AllCacheKeys
          /\ \A p \in probeLog : lastCommit[p.key] = p.sha
          /\ groupCalls = <<>> /\ indCalls = <<>>

C2_Witness ==
    /\ startupScans = 1 /\ TickReturned /\ TickClean
    /\ DOMAIN lastCommit = AllCacheKeys
    /\ \E k \in AllCacheKeys : lastCommit[k] = "bbbbbbbb"

\* C3: of two consecutive ticks with every probe succeeding and no branch head
\* moving from the start of the earlier one on, the later one triggers no
\* deployment and leaves the SeenMap as the earlier one left it.
C3_QuietTickIsIdempotent ==
    (TickReturned /\ prevClean /\ TickClean /\ ~pushedPrev /\ ~pushedCur) =>
        /\ groupCalls = <<>> /\ indCalls = <<>>
        /\ lastCommit = prevSeen

\* C4: a failing probe of (repo, branch) leaves the SeenMap entry of that key
\* as it was (absent stays absent), produces no change event for the
\* repository and by itself puts the repository in no trigger.
C4_FailedProbeLeavesSeenMap ==
    \A p \in probeLog :
      ~p.ok =>
        /\ Entry(lastCommit, p.key) = p.before
        /\ p.repo \notin changedRepos
        /\ p.repo \notin Range(triggeredIndividual)
        /\ p.repo \notin Range(indCalls)
        /\ \A g \in DOMAIN triggeredGroups :
              /\ triggeredGroups[g].TriggerRepo # p.repo
              /\ \E n \in changedRepos : n \in Range(GroupMembers(g))

C4_Witness ==
    /\ TickReturned
    /\ \E p \in probeLog : ~p.ok /\ p.before \in SHAs /\ p.repo = "r1"
    /\ groupCalls # <<>>

----------------------------------------------------------------------------
(* Claims about GetLatestCommit, checked under SpecProbe                   *)

Is4xx(resp) == resp.kind = "status" /\ resp.status \in 400..499

IsRetryableFailure(resp) == resp.kind # "ok" /\ ~Is4xx(resp)

\* C5: a response with a status in 400..499 ends the call: it is the last
\* request of the call, the call returns a failure, and when it answers the
\* first request exactly one request has been issued.
C5_ClientErrorIsNotRetried ==
    \A i \in DOMAIN requests :
      Is4xx(requests[i]) =>
        /\ i = Len(requests)
        /\ gpc = "returned"
        /\ ~result.ok
        /\ (Is4xx(requests[1]) => Len(requests) = 1)

C5_Witness ==
    /\ gpc = "returned"
    /\ Len(requests) = 1
    /\ requests[1].status = 401
    /\ ~result.ok

\* C6: a 5xx response, a transport error and a decode error are retried while
\* retry budget remains, whatever their text; the call returns the
\* observation of the first successful attempt.
C6_NonClientFailureIsRetried ==
    gpc = "returned" =>
      /\ (requests # <<>> /\ IsRetryableFailure(requests[Len(requests)]))
            => Len(requests) = MaxRetries + 1
      /\ \A i \in DOMAIN requests :
            requests[i].kind = "ok" =>
               i = Len(requests) /\ result.ok /\ result.SHA = requests[i].sha

----------------------------------------------------------------------------
(* Claims about DeployGroup, checked under SpecGroup                       *)

NoDuplicates == Cardinality(Range(repoNames)) = Len(repoNames)

SlotHolders == { i \in Members : st[i] \in {"running", "recorded"} }

InDeployRepository == { i \in Members : st[i] = "running" }

\* C7: with continue_on_error = true, under either strategy, every member is
\* attempted, DeployGroup returns nil exactly when every member's DeployResult
\* is successful, and a returned error names all failing members.  (Stated
\* for calls whose deadline has not fired and whose member list has no
\* duplicates.)
C7_ContinueOnErrorAggregates ==
    (dpc = "returned" /\ continueOnError /\ ~ctxDone /\ NoDuplicates) =>
        /\ \A i \in Members : outcome[i] \in {"ok", "fail"}
        /\ (groupErr = Nil) <=> (\A i \in Members : Results[repoNames[i]].Success)
        /\ groupSuccess <=> (groupErr = Nil)
        /\ groupErr # Nil =>
              groupErr.names = { repoNames[i] : i \in { j \in Members : outcome[j] = "fail" } }

\* C8: in a sequential group with continue_on_error = false the first member
\* failure ends the loop: no later member is started or gets a DeployResult,
\* the group result is a failure and the returned error names that member.
C8_SequentialStopsAtFirstFailure ==
    (strategy = "sequential" /\ ~continueOnError) =>
      \A i \in Members :
        outcome[i] = "fail" =>
          /\ dpc = "returned"
          /\ ~groupSuccess
          /\ groupErr = [kind |-> "failed", names |-> {repoNames[i]}]
          /\ \A j \in Members : j < i => outcome[j] = "ok"
          /\ \A j \in Members : j > i => st[j] = "new" /\ outcome[j] = "none"
          /\ DOMAIN Results = { repoNames[j] : j \in 1..i }

C8_Witness ==
    /\ strategy = "sequential" /\ ~continueOnError
    /\ dpc = "returned"
    /\ outcome[1] = "ok" /\ outcome[2] = "fail"
    /\ st[3] = "new"
    /\ repoNames[3] \notin DOMAIN Results

\* C9: in a parallel group with continue_on_error = false, once a member
\* failure has been latched no member still waiting for a slot is admitted.
C9_NoAdmissionAfterFirstFailure ==
    [][ (strategy = "parallel" /\ ~continueOnError /\ firstError.kind = "failed") =>
          \A i \in Members : st[i] = "select" => st'[i] # "running" ]_vars

\* C10: in a parallel group with max_parallel = K at most K members hold a
\* slot, and so at most K are inside deployRepository, in every state.
C10_AtMostKDeployersHoldSlot ==
    strategy = "parallel" =>
        /\ Cardinality(SlotHolders) <= maxParallel
        /\ Cardinality(InDeployRepository) <= maxParallel
        /\ semaphore = Cardinality(SlotHolders)

C10_Witness ==
    /\ strategy = "parallel"
    /\ maxParallel = 2
    /\ Cardinality(InDeployRepository) = 2
    /\ \E i \in Members : st[i] = "select"

\* C11: in a sequential group at most one member is inside deployRepository
\* at a time and members are started in declaration order, each only after
\* the deployment (all commands) of the member before it has returned.
C11_SequentialOneAtATimeInOrder ==
    strategy = "sequential" =>
        /\ Cardinality(InDeployRepository) <= 1
        /\ \A i \in Members :
              st[i] # "new" =>
                 \A j \in Members : j < i => st[j] = "done" /\ outcome[j] # "none"

C11_Witness ==
    /\ strategy = "sequential"
    /\ st[1] = "done" /\ st[2] = "running" /\ st[3] = "new"

\* C12: when the group deadline has fired, on return of DeployGroup every
\* member that was never started has a DeployResult whose error is `timeout`,
\* under either strategy.  (Stated for member lists without duplicates.)
C12_UnstartedMembersGetTimeoutReport ==
    (dpc = "returned" /\ ctxDone /\ NoDuplicates) =>
      \A i \in Members :
        (st[i] = "new" \/ outcome[i] = "timeout") =>
           /\ repoNames[i] \in DOMAIN Results
           /\ Results[repoNames[i]].Error = "timeout"

\* C13: in a parallel group a member that has not acquired a slot when the
\* deadline fires is never started afterwards.
C13_NoStartAfterDeadline ==
    strategy = "parallel" => \A i \in Members : ~lateStart[i]

\* C19: a tick whose only errors are probe failures never terminates the
\* watcher, the start-up scans included: the polling loop keeps running.
C19_ProbeFailureKeepsWatcherRunning ==
    (\A i \in DOMAIN errors : errors[i][1] = "probe") => mpc # "stopped"

\* C20: when a tick has returned every configured (repo, branch) was probed
\* in it, also when an earlier branch of the repository failed or changed.
C20_EveryBranchProbedEachTick ==
    (TickReturned /\ startupScans >= 1) =>
        { p.key : p \in probeLog } = AllCacheKeys

----------------------------------------------------------------------------
(* Claims about the repository deployer, checked under SpecDeploy          *)

IsPrefix(s, t) == Len(s) <= Len(t) /\ s = SubSeq(t, 1, Len(s))

\* C14: a deployment hands its commands to the shell one at a time and in
\* declaration order; when deployRepository has returned, CommandsRun is
\* exactly the commands that were started: the whole recipe on success, and
\* after a failing command the prefix that ends with that command.
C14_CommandsRunIsAttemptedPrefix ==
    \A d \in Deployers :
        LET cmds == DeployCommands(repoName[d])
            run == res[d].CommandsRun
        IN  /\ IsPrefix(started[d], cmds)
            /\ IsPrefix(run, started[d])
            /\ Len(started[d]) - Len(run) = (IF rpc[d] = "running" THEN 1 ELSE 0)
            /\ rpc[d] = "returned" =>
                 /\ res[d].Success => (run = cmds /\ failedAt[d] = 0)
                 /\ failedAt[d] # 0 =>
                       /\ ~res[d].Success
                       /\ Len(run) = failedAt[d]

C14_Witness ==
    \E d \in Deployers :
        /\ rpc[d] = "returned"
        /\ Len(DeployCommands(repoName[d])) = 2
        /\ res[d].Error = "failed to execute commands"
        /\ res[d].CommandsRun = <<"make build">>
        /\ failedAt[d] = 1

C16_WorkspacesNeverShared ==
    /\ \A d, e \in Deployers :
          (d # e /\ InProgress(d) /\ InProgress(e)) => tmpDir[d] # tmpDir[e]
    /\ evicted = {}

----------------------------------------------------------------------------
(* Claims about watch mode, checked under SpecWatch                        *)

\* C17: at most one call of CheckAllRepositories is scanning or dispatching
\* at any time, and a call is entered only after every earlier call (with
\* all its deployments) has returned.
C17_SingleOutstandingTick ==
    /\ Cardinality(ActiveTicks) <= 1
    /\ \A t \in ActiveTicks : \A u \in DOMAIN ticks : u < t => ticks[u].phase = "returned"

C17_Witness ==
    \E t \in DOMAIN ticks :
        /\ ticks[t].ticker
        /\ ticks[t].phase = "dispatch"
        /\ ticks[t].deploying
        /\ tickerC = 1

\* C18: when watchAction has returned because of a signal, no deployment of
\* a dispatch is still in flight.
C18_SignalWaitsForDispatch ==
    (wpc = "returned" /\ wret = "nil") =>
        \A t \in DOMAIN ticks : ~ticks[t].deploying

----------------------------------------------------------------------------
(* Further claims about the deployer                                        *)

ConfiguredNames == { Repositories[i].Name : i \in DOMAIN Repositories }

\* C26: deployRepository always returns a result that is either a success or
\* carries an error; for a name that is not configured the result is a
\* failure with the not-found error, and no workspace is made, no clone is
\* attempted and no command is run.
C26_UnknownRepositoryReportsNotFound ==
    \A d \in Deployers :
        /\ rpc[d] = "returned" => (res[d].Success <=> res[d].Error = "")
        /\ repoName[d] \notin ConfiguredNames =>
              /\ rpc[d] \in {"lookup", "returned"}
              /\ tmpDir[d] = "" /\ res[d].ClonePath = ""
              /\ started[d] = <<>> /\ res[d].CommandsRun = <<>>
              /\ rpc[d] = "returned" =>
                    /\ ~res[d].Success
                    /\ res[d].Error = "repository configuration not found"

C26_Witness ==
    \E d \in Deployers :
        /\ repoName[d] = "rX"
        /\ rpc[d] = "returned"
        /\ res[d].Error = "repository configuration not found"
        /\ fs = {}

HasAcquired(i) == st[i] \in {"running", "recorded", "done"} /\ outcome[i] # "timeout"

\* C27: in a parallel group, before the deadline, a member holds or has held
\* a slot only if every member declared before it has acquired one.
C27_AdmissionInDeclarationOrder ==
    (strategy = "parallel" /\ ~ctxDone) =>
        \A i, j \in Members : (j < i /\ HasAcquired(i)) => HasAcquired(j)

\* C23: an individual deployment runs under the outer deadline configured
\* for it: a command still running when that deadline has passed does not
\* run on, the step that ends it fails the deployment.
C23_IndividualRunsUnderOuterDeadline ==
    [][\A d \in Deployers :
          (individual[d] /\ elapsed[d] /\ rpc[d] = "running" /\ rpc'[d] # "running") =>
              (rpc'[d] = "defer" /\ ~res'[d].Success)]_vars

\* C24: a command that is running when the context of the call is done or
\* when its own 5 minutes have passed is ended as a failure of the
\* deployment, whichever of the two fires, and the 5 minutes count also for
\* a call whose context has no deadline.
C24_CommandRunsUnderBothDeadlines ==
    [][\A d \in Deployers :
          (rpc[d] = "running" /\ rpc'[d] # "running" /\ (rctx[d] \/ cmdTimedOut[d])) =>
              /\ rpc'[d] = "defer"
              /\ ~res'[d].Success
              /\ res'[d].Error = "failed to execute commands"]_vars

C24_Witness ==
    \E d \in Deployers :
        /\ individual[d]
        /\ ~rctx[d]
        /\ cmdTimedOut[d]
        /\ rpc[d] = "returned"
        /\ res[d].Error = "failed to execute commands"

----------------------------------------------------------------------------
(* Claims about concurrent change detection, checked under SpecBranch      *)

ReportedChange(f) ==
    { c \in Callers : bpc[c] = "returned" /\ bret[c].changed /\ commitSHA[c] = f }

\* C21: of the concurrent calls of checkRepositoryBranch that fetched the
\* same new fingerprint, at most one reports a change.
C21_OneChangeEventPerFingerprint ==
    \A f \in Fingerprints : Cardinality(ReportedChange(f)) <= 1

\* C25: checkRepositoryBranch never panics, whatever the length of the
\* fingerprint that was fetched or stored.
C25_NoPanicOnAnyFingerprint ==
    \A c \in Callers : bpc[c] # "panicked"

----------------------------------------------------------------------------
(* Claims about the manual trigger, checked under SpecTrigger              *)

\* C22: when triggerAction has returned, every group that has a member was
\* handed to DeployGroup exactly once, with its members in the order of the
\* configuration, and every ungrouped repository was handed to
\* DeployIndividual exactly once.
C22_TriggerDispatchesEveryTrigger ==
    tpc = "returned" =>
        /\ \A g \in { tcfg[i].Group : i \in DOMAIN tcfg } \ {""} :
              /\ Cardinality({ k \in DOMAIN tGroupCalls : tGroupCalls[k].GroupName = g }) = 1
              /\ \A k \in DOMAIN tGroupCalls :
                    tGroupCalls[k].GroupName = g =>
                       tGroupCalls[k].Repositories =
                          Names(SelectSeq(tcfg, LAMBDA r : InGroup(g, r)))
        /\ \A i \in DOMAIN tcfg :
              tcfg[i].Group = "" =>
                 Cardinality({ k \in DOMAIN tIndCalls : tIndCalls[k] = tcfg[i].Name }) = 1

----------------------------------------------------------------------------
(* Claims about validation, checked under SpecValidate                     *)

----------------------------------------------------------------------------
(* Claims about configuration validation                                    *)

UniqueNames(repos) ==
    \A i, j \in DOMAIN repos : repos[i].Name = repos[j].Name => i = j

\* C29: a configuration that validateConfig accepts has polling_interval of
\* at least 60, at least one repository, no two repositories of the same
\* name, only references to defined groups, and only groups whose strategy
\* is parallel or sequential with max_parallel >= 1 and global_timeout >= 1.
C29_AcceptedConfigIsWellFormed ==
    (cpc = "returned" /\ cverdict = "nil") =>
        /\ cfg.PollingInterval >= 60
        /\ Len(cfg.Repositories) >= 1
        /\ UniqueNames(cfg.Repositories)
        /\ \A i \in DOMAIN cfg.Repositories :
              cfg.Repositories[i].Group # "" =>
                 cfg.Repositories[i].Group \in DOMAIN cfg.Groups
        /\ \A g \in DOMAIN cfg.Groups :
              /\ cfg.Groups[g].ExecutionStrategy \in {"parallel", "sequential"}
              /\ cfg.Groups[g].MaxParallel >= 1
              /\ cfg.Groups[g].GlobalTimeout >= 1

C29_Witness ==
    /\ cpc = "returned"
    /\ cverdict = "undefined group"
    /\ Len(cfg.Repositories) = 2
    /\ cfg.Repositories[2].Group = "H"
    /\ "G" \in DOMAIN cfg.Groups

\* C30: isValidK8sName accepts a name exactly when it has 1 to 253
\* characters, all of them lowercase letters, digits or '-', the first and
\* the last a letter or a digit.
C30_K8sNameAcceptedIffWellFormed ==
    kpc = "returned" =>
        (kvalid <=>
            /\ Len(kname) >= 1
            /\ Len(kname) <= 253
            /\ \A i \in DOMAIN kname : kname[i] \in LowerLetters \cup Digits \cup {"-"}
            /\ kname[1] \notin {"-"}
            /\ kname[Len(kname)] \notin {"-"})

C30_Witness ==
    /\ kpc = "returned"
    /\ kname = <<"t", "e", "s", "t", "-">>
    /\ ~kvalid

----------------------------------------------------------------------------
(* Further claims about the manual trigger, checked under SpecTrigger      *)

\* C32: when triggerAction has returned, as many DeployGroup calls as the
\* plan has groups and as many DeployIndividual calls as it has individual
\* repositories were made, whether or not one of them failed.
C32_TriggerFailureDoesNotStopThePlan ==
    tpc = "returned" =>
        /\ Len(tGroupCalls) = Cardinality(DOMAIN tgroups)
        /\ tIndCalls = tindividual

----------------------------------------------------------------------------
(* Further claims about GetLatestCommit                                     *)

\* C35: a call of GetLatestCommit never issues more than 4 requests, returns
\* a success exactly when its last request succeeded, and always returns.
C35_AtMostFourRequestsAndReturns ==
    /\ [](Len(requests) <= 4)
    /\ [](gpc = "returned" =>
            (result.ok <=> (requests # <<>> /\ requests[Len(requests)].kind = "ok")))
    /\ <>(gpc = "returned")

C35_Witness ==
    /\ gpc = "returned"
    /\ Len(requests) = 4
    /\ ~result.ok
    /\ \A i \in DOMAIN requests : requests[i].kind = "transport"

\* C36: for a repository type other than github, gitlab and gitea the call
\* issues no request and returns the unsupported-type failure from its first
\* iteration.
C36_UnsupportedTypeFailsWithoutRequest ==
    repoType \notin {"github", "gitlab", "gitea"} =>
        /\ requests = <<>>
        /\ attempt = 0
        /\ gpc = "returned" => (~result.ok /\ result.why = "unsupported")

C36_Witness ==
    /\ repoType = "bitbucket"
    /\ gpc = "returned"
    /\ result.why = "unsupported"
    /\ requests = <<>>

----------------------------------------------------------------------------
(* Further claims about deployRepository                                    *)

\* C37: a deployment hands a command to the shell only after it has its
\* workspace and its clone has succeeded; a deployment whose clone failed, or
\* whose workspace could not be created, has started no command and reports
\* an empty CommandsRun and no success.
C37_FirstFailureShortCircuits ==
    \A d \in Deployers :
        /\ started[d] # <<>> =>
              /\ tmpDir[d] # ""
              /\ rpc[d] \in {"cmd", "running", "defer", "returned"}
              /\ res[d].Error \notin {"failed to clone QA repository",
                                      "failed to create temp directory"}
        /\ res[d].Error = "failed to clone QA repository" =>
              /\ started[d] = <<>>
              /\ res[d].CommandsRun = <<>>
              /\ ~res[d].Success
              /\ tmpDir[d] # ""
              /\ rpc[d] \in {"defer", "returned"}
        /\ res[d].Error = "failed to create temp directory" =>
              /\ started[d] = <<>>
              /\ res[d].CommandsRun = <<>>
              /\ ~res[d].Success
              /\ rpc[d] = "returned"
        /\ rpc[d] \in {"lookup", "mktemp", "clone"} => started[d] = <<>>

C37_Witness ==
    \E d \in Deployers :
        /\ rpc[d] = "returned"
        /\ res[d].Error = "failed to clone QA repository"
        /\ DeployCommands(repoName[d]) # <<>>
        /\ res[d].CommandsRun = <<>>

----------------------------------------------------------------------------
(* Further claims about deployGroupParallel                                 *)

\* C38: when a parallel DeployGroup has returned, every member goroutine has
\* finished, no semaphore slot is held, and the result map holds an entry for
\* each member name of the list and for no other name.
C38_ParallelReturnsAfterEveryMember ==
    (strategy = "parallel" /\ dpc = "returned") =>
        /\ \A i \in Members : st[i] = "done" /\ outcome[i] # "none"
        /\ semaphore = 0
        /\ DOMAIN Results = Range(repoNames)

C38_Witness ==
    /\ strategy = "parallel"
    /\ dpc = "returned"
    /\ ~continueOnError
    /\ repoNames = <<"r1", "r2", "r3">>
    /\ firstError.kind = "failed"
    /\ \E i \in Members : outcome[i] = "ok"
    /\ Cardinality(DOMAIN Results) = 3

----------------------------------------------------------------------------
(* Further claims about the polling loop                                    *)

\* C31: no call of CheckAllRepositories is entered for a tick that fired
\* while the dispatch of the call before it was still running.
C31_TickDuringDispatchIsSkipped ==
    \A t \in DOMAIN ticks : ~ticks[t].queued

----------------------------------------------------------------------------
(* Further claims about the poller                                          *)

\* C33: no step removes an entry of lastCommit, and a step that installs an
\* entry or changes its value is one in which that (repo, branch) was probed
\* successfully with a fingerprint other than the stored one; the entry is
\* that fingerprint afterwards.
C33_SeenMapOnlyTracksSuccessfulProbes ==
    [][ /\ DOMAIN lastCommit \subseteq DOMAIN lastCommit'
        /\ \A k \in DOMAIN lastCommit' :
              Entry(lastCommit, k) # lastCommit'[k] =>
                 \E p \in probeLog' \ probeLog :
                    /\ p.key = k
                    /\ p.ok
                    /\ p.before = Entry(lastCommit, k)
                    /\ p.sha # p.before
                    /\ lastCommit'[k] = p.sha ]_vars

C33_Witness ==
    /\ startupScans = StartupScans
    /\ \E p \in probeLog :
          /\ p.ok
          /\ p.before # "none"
          /\ p.sha # p.before
          /\ lastCommit[p.key] = p.sha
    /\ \E q \in probeLog : ~q.ok /\ q.before # "none" /\ lastCommit[q.key] = q.before

\* C34: the scans made before the ticker is created only take the baseline:
\* none of them detects a change or dispatches a deployment, so a commit
\* pushed after the baseline scan is detected by a scan of the ticker.
C34_StartupScanOnlyTakesBaseline ==
    startupScans < StartupScans =>
        /\ changedRepos = {}
        /\ groupCalls = <<>>
        /\ indCalls = <<>>

\* C39: when a tick has returned, every repository was scanned, the plan
\* holds the group of every changed grouped repository and every changed
\* ungrouped repository, every trigger of the plan was dispatched once, and
\* the returned error names every repository whose probe failed; the errors
\* are as many as the failed probes and failed dispatches together.
C39_FailuresDoNotAbortTheTick ==
    (TickReturned /\ startupScans >= 1) =>
        /\ \A i \in DOMAIN Repositories :
              \E p \in probeLog : p.repo = Repositories[i].Name
        /\ DOMAIN triggeredGroups =
              { Repositories[i].Group : i \in { j \in DOMAIN Repositories :
                    /\ Repositories[j].Name \in changedRepos
                    /\ Repositories[j].Group # "" } }
        /\ Range(triggeredIndividual) =
              { Repositories[i].Name : i \in { j \in DOMAIN Repositories :
                    /\ Repositories[j].Name \in changedRepos
                    /\ Repositories[j].Group = "" } }
        /\ Len(groupCalls) = Cardinality(DOMAIN triggeredGroups)
        /\ { groupCalls[c].GroupName : c \in DOMAIN groupCalls } = DOMAIN triggeredGroups
        /\ indCalls = triggeredIndividual
        /\ \A p \in probeLog : ~p.ok => <<"probe", p.repo>> \in Range(errors)
        /\ \A e \in DOMAIN errors :
              \/ errors[e][1] = "probe" /\ \E p \in probeLog : ~p.ok /\ p.repo = errors[e][2]
              \/ errors[e][1] = "group" /\ errors[e][2] \in DOMAIN triggeredGroups
              \/ errors[e][1] = "individual" /\ errors[e][2] \in Range(triggeredIndividual)

C39_Witness ==
    /\ TickReturned
    /\ startupScans = StartupScans
    /\ mpc = "idle"
    /\ Len(errors) = 2
    /\ <<"probe", "r1">> \in Range(errors)
    /\ <<"group", "G">> \in Range(errors)
    /\ changedRepos = {"r2", "r3"}
    /\ indCalls = <<"r3">>

\* C40: a repository whose deployment failed in a tick is not deployed by the
\* next tick when every probe of both ticks succeeded and no branch head moved
\* from the start of the earlier tick on.
C40_FailedDeploymentIsNotRepeated ==
    (TickReturned /\ prevClean /\ TickClean /\ ~pushedPrev /\ ~pushedCur) =>
        \A n \in prevFailed :
            /\ n \notin Range(indCalls)
            /\ \A c \in DOMAIN groupCalls : n \notin Range(groupCalls[c].Repositories)

====
